---------------------------- MODULE Spec2Model ----------------------------
(***************************************************************************)
(* Verification model of the streaming core of src/shared/                 *)
(* call-completion-api-server.ts: the line protocol (formatStreamPart /    *)
(* parseStreamPart), the side-channel buffer experimental_StreamData, the  *)
(* function/tool-call interceptor createFunctionCallTransformer inside     *)
(* OpenAIStream, and the reconstructor parseComplexResponse.               *)
(*                                                                         *)
(* Text is modelled by TLA+ strings (character sequences).  JSON values    *)
(* are tagged pairs: <<"str", s>>, <<"num", n>>, <<"bool", b>>,            *)
(* <<"null", 0>>, <<"arr", <<v1, ...>>>>, <<"obj", << <<k1, v1>>, ... >>>>  *)
(* and the JavaScript undefined is <<"undef", 0>>.                         *)
(***************************************************************************)
EXTENDS Integers, Sequences, FiniteSets, TLC

(***************************************************************************)
(* JSON values                                                             *)
(***************************************************************************)
JStr(s) == <<"str", s>>
JNum(n) == <<"num", n>>
JNull == <<"null", 0>>
JArr(items) == <<"arr", items>>
JObj(kvs) == <<"obj", kvs>>
Undefined == <<"undef", 0>>

Tag(v) == v[1]
IsStr(v) == Tag(v) = "str"
IsArr(v) == Tag(v) = "arr"
\* typeof v === "object" && v != null (arrays are objects in JavaScript)
IsObjectLike(v) == Tag(v) \in {"obj", "arr"}

\* "k" in v, for a value for which the in operator does not throw
HasKey(v, k) ==
  /\ Tag(v) = "obj"
  /\ \E i \in 1..Len(v[2]) : v[2][i][1] = k

\* v.k : the member's value, undefined when absent (or when v has no members)
Get(v, k) ==
  IF HasKey(v, k)
  THEN LET i == CHOOSE j \in 1..Len(v[2]) : v[2][j][1] = k IN v[2][i][2]
  ELSE Undefined

\* JavaScript truthiness of a value
Truthy(v) ==
  CASE Tag(v) = "undef" -> FALSE
    [] Tag(v) = "null" -> FALSE
    [] Tag(v) = "str" -> v[2] # ""
    [] Tag(v) = "num" -> v[2] # 0
    [] Tag(v) = "bool" -> v[2]
    [] OTHER -> TRUE

(***************************************************************************)
(* JSON.stringify                                                          *)
(***************************************************************************)
Ch(s, i) == IF i >= 1 /\ i <= Len(s) THEN SubSeq(s, i, i) ELSE ""
Sub(s, i, j) == IF i >= 1 /\ j <= Len(s) THEN SubSeq(s, i, j) ELSE ""

\* what the encoding of a string would be with no character escaped
EscapeChar_Raw(c) == c

EscapeChar(c) ==
  CASE c = "\"" -> "\\\""
    [] c = "\\" -> "\\\\"
    [] c = "\n" -> "\\n"
    [] OTHER -> c

RECURSIVE EscapeFrom(_, _)
EscapeFrom(s, i) ==
  IF i > Len(s) THEN "" ELSE EscapeChar(Ch(s, i)) \o EscapeFrom(s, i + 1)

Digits == <<"0", "1", "2", "3", "4", "5", "6", "7", "8", "9">>

RECURSIVE NatToString(_)
NatToString(n) ==
  IF n < 10 THEN Digits[n + 1]
  ELSE NatToString(n \div 10) \o Digits[(n % 10) + 1]

RECURSIVE JSONstringify(_)
RECURSIVE StringifyItems(_, _)
RECURSIVE StringifyMembers(_, _)
StringifyItems(items, i) ==
  IF i > Len(items) THEN ""
  ELSE (IF i > 1 THEN "," ELSE "") \o JSONstringify(items[i])
         \o StringifyItems(items, i + 1)

StringifyMembers(kvs, i) ==
  IF i > Len(kvs) THEN ""
  ELSE (IF i > 1 THEN "," ELSE "")
         \o "\"" \o EscapeFrom(kvs[i][1], 1) \o "\":"
         \o JSONstringify(kvs[i][2]) \o StringifyMembers(kvs, i + 1)

JSONstringify(v) ==
  CASE Tag(v) = "str" -> "\"" \o EscapeFrom(v[2], 1) \o "\""
    [] Tag(v) = "num" -> NatToString(v[2])
    [] Tag(v) = "bool" -> IF v[2] THEN "true" ELSE "false"
    [] Tag(v) = "null" -> "null"
    [] Tag(v) = "arr" -> "[" \o StringifyItems(v[2], 1) \o "]"
    [] Tag(v) = "obj" -> "{" \o StringifyMembers(v[2], 1) \o "}"

(***************************************************************************)
(* JSON.parse : a recursive-descent parser.  A parse step returns          *)
(* [ok, val, pos]: pos is the index of the first character not consumed.   *)
(***************************************************************************)
PFail == [ok |-> FALSE, val |-> Undefined, pos |-> 0]
POk(v, p) == [ok |-> TRUE, val |-> v, pos |-> p]

IsSpace(c) == c \in {" ", "\n", "\t", "\r"}
IsDigit(c) == c \in {"0", "1", "2", "3", "4", "5", "6", "7", "8", "9"}
DigitVal(c) == (CHOOSE k \in 1..10 : Digits[k] = c) - 1

RECURSIVE SkipWs(_, _)
SkipWs(s, i) == IF IsSpace(Ch(s, i)) THEN SkipWs(s, i + 1) ELSE i

\* the characters of a string literal, from the one after the opening quote
RECURSIVE ParseChars(_, _, _)
ParseChars(s, i, acc) ==
  LET c == Ch(s, i) IN
  CASE c = "" -> PFail
    [] c = "\"" -> POk(JStr(acc), i + 1)
    [] c = "\n" -> PFail
    [] c = "\\" ->
         LET e == Ch(s, i + 1) IN
         CASE e \in {"\"", "\\", "/"} -> ParseChars(s, i + 2, acc \o e)
           [] e = "n" -> ParseChars(s, i + 2, acc \o "\n")
           [] OTHER -> PFail
    [] OTHER -> ParseChars(s, i + 1, acc \o c)

RECURSIVE ParseDigits(_, _, _)
ParseDigits(s, i, n) ==
  IF IsDigit(Ch(s, i)) THEN ParseDigits(s, i + 1, 10 * n + DigitVal(Ch(s, i)))
  ELSE POk(JNum(n), i)

RECURSIVE ParseValue(_, _)
RECURSIVE ParseItems(_, _, _)
RECURSIVE ParseMembers(_, _, _)
\* array elements, i at the first character of an element
ParseItems(s, i, acc) ==
  LET r == ParseValue(s, i) IN
  IF ~r.ok THEN PFail
  ELSE LET j == SkipWs(s, r.pos) IN
       CASE Ch(s, j) = "," -> ParseItems(s, j + 1, Append(acc, r.val))
         [] Ch(s, j) = "]" -> POk(JArr(Append(acc, r.val)), j + 1)
         [] OTHER -> PFail

\* object members, i at or before the opening quote of a key
ParseMembers(s, i, acc) ==
  LET k0 == SkipWs(s, i) IN
  IF Ch(s, k0) # "\"" THEN PFail
  ELSE LET k == ParseChars(s, k0 + 1, "") IN
       IF ~k.ok THEN PFail
       ELSE LET c == SkipWs(s, k.pos) IN
            IF Ch(s, c) # ":" THEN PFail
            ELSE LET r == ParseValue(s, c + 1) IN
                 IF ~r.ok THEN PFail
                 ELSE LET j == SkipWs(s, r.pos)
                          \* a repeated key keeps its first place, last value
                          dup == \E m \in 1..Len(acc) : acc[m][1] = k.val[2]
                          acc2 == IF dup
                                  THEN [m \in 1..Len(acc) |->
                                          IF acc[m][1] = k.val[2]
                                          THEN <<k.val[2], r.val>> ELSE acc[m]]
                                  ELSE Append(acc, <<k.val[2], r.val>>)
                      IN CASE Ch(s, j) = "," -> ParseMembers(s, j + 1, acc2)
                           [] Ch(s, j) = "}" -> POk(JObj(acc2), j + 1)
                           [] OTHER -> PFail

ParseValue(s, i0) ==
  LET i == SkipWs(s, i0)
      c == Ch(s, i)
  IN CASE c = "\"" -> ParseChars(s, i + 1, "")
       [] c = "[" ->
            LET j == SkipWs(s, i + 1) IN
            IF Ch(s, j) = "]" THEN POk(JArr(<<>>), j + 1)
            ELSE ParseItems(s, j, <<>>)
       [] c = "{" ->
            LET j == SkipWs(s, i + 1) IN
            IF Ch(s, j) = "}" THEN POk(JObj(<<>>), j + 1)
            ELSE ParseMembers(s, j, <<>>)
       [] IsDigit(c) ->
            IF c = "0" /\ IsDigit(Ch(s, i + 1)) THEN PFail
            ELSE ParseDigits(s, i, 0)
       [] Sub(s, i, i + 3) = "null" -> POk(JNull, i + 4)
       [] Sub(s, i, i + 3) = "true" -> POk(<<"bool", TRUE>>, i + 4)
       [] Sub(s, i, i + 4) = "false" -> POk(<<"bool", FALSE>>, i + 5)
       [] OTHER -> PFail

\* JSON.parse(text): [ok |-> FALSE] stands for the SyntaxError it throws
JSONparse(text) ==
  LET r == ParseValue(text, 1) IN
  IF r.ok /\ SkipWs(text, r.pos) = Len(text) + 1 THEN [ok |-> TRUE, val |-> r.val]
  ELSE [ok |-> FALSE, val |-> Undefined]

StartsWith(s, p) == Len(s) >= Len(p) /\ SubSeq(s, 1, Len(p)) = p


(***************************************************************************)
(* shared/stream-parts.ts : the nine part kinds, their codes, and the      *)
(* structural check of each.  A parse result is [ok, err, type, value];    *)
(* err names the Error thrown ("shape": the part's own check failed).      *)
(***************************************************************************)
TypeofObject(v) == Tag(v) \in {"obj", "arr", "null"}
IsNullish(v) == Tag(v) \in {"null", "undef"}

Part(t, v) == [ok |-> TRUE, err |-> "none", type |-> t, value |-> v]
PartError(e) == [ok |-> FALSE, err |-> e, type |-> "none", value |-> Undefined]

textStreamPart(value) ==
  IF ~IsStr(value) THEN PartError("shape") ELSE Part("text", value)

functionCallStreamPart(value) ==
  LET fc == Get(value, "function_call") IN
  IF \/ IsNullish(value)
     \/ ~TypeofObject(value)
     \/ ~HasKey(value, "function_call")
     \/ ~TypeofObject(fc)
     \/ IsNullish(fc)
     \/ ~HasKey(fc, "name")
     \/ ~HasKey(fc, "arguments")
     \/ ~IsStr(Get(fc, "name"))
     \/ ~IsStr(Get(fc, "arguments"))
  THEN PartError("shape")
  ELSE Part("function_call", value)

dataStreamPart(value) ==
  IF ~IsArr(value) THEN PartError("shape") ELSE Part("data", value)

errorStreamPart(value) ==
  IF ~IsStr(value) THEN PartError("shape") ELSE Part("error", value)

assistantMessageContentItem(item) ==
  /\ ~IsNullish(item)
  /\ TypeofObject(item)
  /\ HasKey(item, "type")
  /\ Get(item, "type") = JStr("text")
  /\ HasKey(item, "text")
  /\ ~IsNullish(Get(item, "text"))
  /\ TypeofObject(Get(item, "text"))
  /\ HasKey(Get(item, "text"), "value")
  /\ IsStr(Get(Get(item, "text"), "value"))

assistantMessageStreamPart(value) ==
  LET content == Get(value, "content") IN
  IF \/ IsNullish(value)
     \/ ~TypeofObject(value)
     \/ ~HasKey(value, "id")
     \/ ~HasKey(value, "role")
     \/ ~HasKey(value, "content")
     \/ ~IsStr(Get(value, "id"))
     \/ ~IsStr(Get(value, "role"))
     \/ Get(value, "role") # JStr("assistant")
     \/ ~IsArr(content)
     \/ ~(\A i \in 1..Len(content[2]) : assistantMessageContentItem(content[2][i]))
  THEN PartError("shape")
  ELSE Part("assistant_message", value)

assistantControlDataStreamPart(value) ==
  IF \/ IsNullish(value)
     \/ ~TypeofObject(value)
     \/ ~HasKey(value, "threadId")
     \/ ~HasKey(value, "messageId")
     \/ ~IsStr(Get(value, "threadId"))
     \/ ~IsStr(Get(value, "messageId"))
  THEN PartError("shape")
  ELSE Part("assistant_control_data",
            JObj(<< <<"threadId", Get(value, "threadId")>>,
                    <<"messageId", Get(value, "messageId")>> >>))

dataMessageStreamPart(value) ==
  IF \/ IsNullish(value)
     \/ ~TypeofObject(value)
     \/ ~HasKey(value, "role")
     \/ ~HasKey(value, "data")
     \/ ~IsStr(Get(value, "role"))
     \/ Get(value, "role") # JStr("data")
  THEN PartError("shape")
  ELSE Part("data_message", value)

\* line 337: the boolean expression the callback of some() evaluates
toolCallElementExpr(tc) ==
  LET fn == Get(tc, "function") IN
  \/ IsNullish(tc)
  \/ ~TypeofObject(tc)
  \/ ~HasKey(tc, "id")
  \/ ~IsStr(Get(tc, "id"))
  \/ ~HasKey(tc, "type")
  \/ ~IsStr(Get(tc, "type"))
  \/ ~HasKey(tc, "function")
  \/ IsNullish(fn)
  \/ ~TypeofObject(fn)
  \/ ~HasKey(fn, "arguments")
  \/ ~IsStr(Get(fn, "name"))
  \/ ~IsStr(Get(fn, "arguments"))

\* lines 336-338: the arrow function has a block body, (tc) => { expr; },
\* with no return statement: the expression is evaluated and dropped, the
\* callback returns undefined, which some() takes as false
toolCallSomeCallback(tc) ==
  LET dropped == toolCallElementExpr(tc) IN FALSE

toolCallStreamPart(value) ==
  LET tcs == Get(value, "tool_calls") IN
  IF \/ IsNullish(value)
     \/ ~TypeofObject(value)
     \/ ~HasKey(value, "tool_calls")
     \/ ~TypeofObject(tcs)
     \/ IsNullish(tcs)
     \/ ~IsArr(tcs)
     \/ \E i \in 1..Len(tcs[2]) : toolCallSomeCallback(tcs[2][i])
  THEN PartError("shape")
  ELSE Part("tool_calls", value)

messageAnnotationsStreamPart(value) ==
  IF ~IsArr(value) THEN PartError("shape")
  ELSE Part("message_annotations", value)

\* streamParts: the table in its order, <<code, name>>
streamParts ==
  << <<"0", "text">>, <<"1", "function_call">>, <<"2", "data">>,
     <<"3", "error">>, <<"4", "assistant_message">>,
     <<"5", "assistant_control_data">>, <<"6", "data_message">>,
     <<"7", "tool_calls">>, <<"8", "message_annotations">> >>

validCodes == {streamParts[i][1] : i \in 1..Len(streamParts)}

\* streamPartsByCode[code].parse(jsonValue)
streamPartsByCode(code, value) ==
  CASE code = "0" -> textStreamPart(value)
    [] code = "1" -> functionCallStreamPart(value)
    [] code = "2" -> dataStreamPart(value)
    [] code = "3" -> errorStreamPart(value)
    [] code = "4" -> assistantMessageStreamPart(value)
    [] code = "5" -> assistantControlDataStreamPart(value)
    [] code = "6" -> dataMessageStreamPart(value)
    [] code = "7" -> toolCallStreamPart(value)
    [] code = "8" -> messageAnnotationsStreamPart(value)

\* line.indexOf(":"), 0 for the -1 of JavaScript (indices are 1-based here)
RECURSIVE IndexOfFrom(_, _, _)
IndexOfFrom(s, c, i) ==
  IF i > Len(s) THEN 0
  ELSE IF Ch(s, i) = c THEN i ELSE IndexOfFrom(s, c, i + 1)

\* what parseStreamPart would be if a prefix outside the table were read as
\* the code of a text part
parseStreamPart_AnyCode(line) ==
  LET firstSeparatorIndex == IndexOfFrom(line, ":", 1) IN
  IF firstSeparatorIndex = 0 THEN PartError("no-separator")
  ELSE LET prefix == Sub(line, 1, firstSeparatorIndex - 1)
           textValue == Sub(line, firstSeparatorIndex + 1, Len(line))
           jsonValue == JSONparse(textValue)
       IN IF ~jsonValue.ok THEN PartError("json")
          ELSE streamPartsByCode(IF prefix \in validCodes THEN prefix ELSE "0",
                                 jsonValue.val)

parseStreamPart(line) ==
  LET firstSeparatorIndex == IndexOfFrom(line, ":", 1) IN
  IF firstSeparatorIndex = 0 THEN PartError("no-separator")
  ELSE LET prefix == Sub(line, 1, firstSeparatorIndex - 1)
           textValue == Sub(line, firstSeparatorIndex + 1, Len(line))
       IN IF prefix \notin validCodes THEN PartError("invalid-code")
          ELSE LET jsonValue == JSONparse(textValue) IN
               IF ~jsonValue.ok THEN PartError("json")
               ELSE streamPartsByCode(prefix, jsonValue.val)

\* formatStreamPart(type, value); "" stands for the Error of an unknown type
formatStreamPart(type, value) ==
  IF \E i \in 1..Len(streamParts) : streamParts[i][2] = type
  THEN LET i == CHOOSE j \in 1..Len(streamParts) : streamParts[j][2] = type
       IN streamParts[i][1] \o ":" \o JSONstringify(value) \o "\n"
  ELSE ""


(***************************************************************************)
(* Bounds of the model                                                     *)
(***************************************************************************)
\* most elements of a tool_calls array offered to the decoder
MaxToolCalls == 1

SeqsUpTo(S, n) == UNION {[1..k -> S] : k \in 0..n}

\* most append / appendMessageAnnotation / content-unit events on one buffer
MaxOps == 4

\* most lines one reconstruction pass is given
MaxParts == 3

\* most units the source streams of one interceptor run deliver in all
MaxUnits == 3
\* most nested OpenAIStream pipelines (the outer one and its continuations)
MaxDepth == 3

\* most lines the source of one readDataStream call delivers
MaxLines == 2

VARIABLES
  line,   \* decoder: the line handed to parseStreamPart
  part,   \* decoder: what parseStreamPart returned or threw, or Pending
  encoded, \* encoder: the type and value handed to formatStreamPart, if any
  data,               \* experimental_StreamData: this.data
  messageAnnotations, \* experimental_StreamData: this.messageAnnotations
  isClosed,           \* experimental_StreamData: this.isClosed
  isClosedPromise,    \* experimental_StreamData: "pending" or "resolved"
  sdPc,     \* its stream: "open", "flushing" (flush awaits the promise), "done"
  sdOut,    \* the chunks its stream's controller has enqueued, in order
  lastCall, \* the last method call on the buffer and whether it threw
  hist,     \* history: the successful appends, the content units, the close
  prefixMap,           \* parseComplexResponse: the accumulators and the data
  message_annotations, \* parseComplexResponse: Undefined or the list so far
  nextId,   \* parseComplexResponse: how many ids generateId has handed out
  updates,  \* the calls of update(merged, data) so far: the sink
  pcrPc,    \* "reading", "canceled" (the reader was canceled), "failed" (a
            \* decode error was thrown), "finished"
  received, \* history: the parts the pass has processed, in order
  written,  \* history: the lines parseStreamPart has been applied to, in order
  pending,  \* the decoded parts of the current batch not yet yielded to the pass
  abortControllerRef, \* "none" (not passed), "set", or "null" (current === null)
  outcome,  \* the calls of onFinish, what was returned, what was thrown
  cb,         \* OpenAIStream: which callbacks the caller configured
  levels,     \* the nested OpenAIStream pipelines, the outer one first
  fnOut,      \* the chunks the outer pipeline's stream has enqueued
  finalCalls, \* the calls of onFinal, in order
  calls,      \* history: the flushes that reached a user callback
  rdLines,    \* readDataStream: the lines the source was written from
  rdRest,     \* the bytes the reader has not delivered yet
  chunks,     \* chunks: whether it holds a chunk, and the bytes it holds
  isAborted,  \* the isAborted option: "none", or what it returns now
  rdBatch,    \* streamParts2: the parts of the batch not yielded yet
  rdOut,      \* the parts yielded so far
  rdPc,       \* "read", "yield", "check", "done", "failed"
  rdLog,      \* history: reads issued, checks made, reader.cancel() calls
  arIds,      \* experimental_AssistantResponse: {threadId, messageId}
  arOut,      \* the chunks enqueued on the response's stream, in order
  arPc,       \* "new", "process" (process2 is running), "closed", "errored"
  arLog,      \* history: what process2 was given and did, controller.close() calls
  callbacks,  \* createCallbacksTransformer: which hooks cb holds
  ctAggregatedResponse, \* its aggregatedResponse
  ctOut,      \* the chunks it has enqueued
  ctPc,       \* "start", "transform", "closed"
  ctLog,      \* history: the units it was given, the hook calls in order
  ucCompletion, \* useCompletion: the completion state (SWR data)
  isLoading,  \* useCompletion: the loading state
  ucError,    \* useCompletion: the error state, "undefined" or a message
  streamData, \* useCompletion: the data state
  abortCurrent, \* abortControllerRef.current: "null" or the request whose
                \* AbortController it holds
  reqs        \* the calls of complete(): for each its position in
              \* triggerRequest / callCompletionApi, its locals, and history

decVars == <<line, part, encoded>>
sdVars == <<data, messageAnnotations, isClosed, isClosedPromise, sdPc, sdOut,
            lastCall, hist>>
pcrVars == <<prefixMap, message_annotations, nextId, updates, pcrPc, received,
             written, pending, abortControllerRef, outcome>>
fnVars == <<cb, levels, fnOut, finalCalls, calls>>
rdVars == <<rdLines, rdRest, chunks, isAborted, rdBatch, rdOut, rdPc, rdLog>>
arVars == <<arIds, arOut, arPc, arLog>>
ctVars == <<callbacks, ctAggregatedResponse, ctOut, ctPc, ctLog>>
ucVars == <<ucCompletion, isLoading, ucError, streamData, abortCurrent, reqs>>
vars == <<decVars, sdVars, pcrVars, fnVars, rdVars, arVars, ctVars, ucVars>>
\* what the steps of one component leave alone
notDecVars == <<sdVars, pcrVars, fnVars, rdVars, arVars, ctVars, ucVars>>
notSdVars == <<decVars, pcrVars, fnVars, rdVars, arVars, ctVars, ucVars>>
notPcrVars == <<decVars, sdVars, fnVars, rdVars, arVars, ctVars, ucVars>>
notFnVars == <<decVars, sdVars, pcrVars, rdVars, arVars, ctVars, ucVars>>
notRdVars == <<decVars, sdVars, pcrVars, fnVars, arVars, ctVars, ucVars>>
notArVars == <<decVars, sdVars, pcrVars, fnVars, rdVars, ctVars, ucVars>>
notCtVars == <<decVars, sdVars, pcrVars, fnVars, rdVars, arVars, ucVars>>
notUcVars == <<decVars, sdVars, pcrVars, fnVars, rdVars, arVars, ctVars>>

(***************************************************************************)
(* The decoder on its own: parseStreamPart applied to lines drawn from a   *)
(* bounded set of well-formed and ill-formed lines.                        *)
(***************************************************************************)
Pending == [ok |-> FALSE, err |-> "pending", type |-> "none", value |-> Undefined]

Absent == <<"absent", 0>>
OptMember(k, v) == IF v = Absent THEN <<>> ELSE << <<k, v>> >>

ToolFunctionValues ==
  {Absent, JNull} \cup
  {JObj(OptMember("name", n) \o OptMember("arguments", a)) :
     n \in {Absent, JStr("g"), JNum(1)}, a \in {Absent, JStr("{}"), JNum(1)}}

ToolCallElements ==
  {JNull, JNum(1), JStr("x")} \cup
  {JObj(OptMember("id", i) \o OptMember("type", t) \o OptMember("function", f)) :
     i \in {Absent, JStr("t1"), JNum(1)},
     t \in {Absent, JStr("function")},
     f \in ToolFunctionValues}

ToolCallPayloads ==
  {JObj(<< <<"tool_calls", JArr(a)>> >>) : a \in SeqsUpTo(ToolCallElements, MaxToolCalls)}
  \cup {JObj(<< <<"tool_calls", JNull>> >>), JObj(<< <<"tool_calls", JObj(<<>>)>> >>)}

FunctionCallPayload(name, arguments) ==
  JObj(<< <<"function_call",
            JObj(<< <<"name", JStr(name)>>, <<"arguments", JStr(arguments)>> >>)>> >>)

TextContentItem(s) ==
  JObj(<< <<"type", JStr("text")>>, <<"text", JObj(<< <<"value", JStr(s)>> >>)>> >>)

PayloadPool ==
  { JStr("x"), JStr("a\"b\nc"), JNum(1), JNull, JArr(<<>>), JObj(<<>>),
    JArr(<<JNum(1), JObj(<< <<"a", JNum(1)>> >>)>>),
    FunctionCallPayload("f", "{}"),
    JObj(<< <<"function_call", JObj(<< <<"name", JStr("f")>> >>)>> >>),
    JObj(<< <<"function_call", JNull>> >>),
    JObj(<< <<"function_call",
              JObj(<< <<"name", JNum(1)>>, <<"arguments", JStr("{}")>> >>)>> >>),
    JObj(<< <<"id", JStr("m1")>>, <<"role", JStr("assistant")>>,
            <<"content", JArr(<<TextContentItem("hi")>>)>> >>),
    JObj(<< <<"id", JStr("m1")>>, <<"role", JStr("user")>>,
            <<"content", JArr(<<>>)>> >>),
    JObj(<< <<"id", JStr("m1")>>, <<"role", JStr("assistant")>>,
            <<"content", JArr(<<JObj(<< <<"type", JStr("image")>> >>)>>)>> >>),
    JObj(<< <<"threadId", JStr("t")>>, <<"messageId", JStr("m")>>,
            <<"extra", JNum(1)>> >>),
    JObj(<< <<"threadId", JStr("t")>> >>),
    JObj(<< <<"role", JStr("data")>>, <<"data", JNull>> >>),
    JObj(<< <<"role", JStr("data")>> >>),
    JObj(<< <<"tool_calls", JArr(<<>>)>> >>) }

RawLine(code, v) == code \o ":" \o JSONstringify(v)

DecodeLines ==
  {RawLine(c, v) : c \in validCodes \cup {"9", "", "00"}, v \in PayloadPool}
  \cup {RawLine("7", v) : v \in ToolCallPayloads}
  \cup {"", "abc", "0", "0:", "0:\"x", "2:[1,", "9:\"x\"", "7:{\"tool_calls\":[", "1:{}x"}

\* no call of formatStreamPart
NotEncoded == [type |-> "none", value |-> Undefined]

DecodeIdle == line = "" /\ part = Pending /\ encoded = NotEncoded

\* constructor of experimental_StreamData (lines 418-432); start() has run
StreamDataNew ==
  /\ data = <<>>
  /\ messageAnnotations = <<>>
  /\ isClosed = FALSE
  /\ isClosedPromise = "pending"
  /\ sdPc = "open"
  /\ sdOut = <<>>
  /\ lastCall = [op |-> "new", threw |-> FALSE]
  /\ hist = <<>>

\* no message; JavaScript's undefined member of prefixMap
NoMessage ==
  [kind |-> "none", id |-> 0, content |-> "", payload |-> Undefined,
   annotations |-> Undefined]

\* nothing returned, nothing thrown, onFinish not called, reader not canceled
NoOutcome ==
  [finishCalls |-> <<>>, result |-> <<>>, error |-> "none", canceled |-> FALSE]

\* parseComplexResponse, lines 1311-1315
ReconstructorNew ==
  /\ prefixMap = [text |-> NoMessage, function_call |-> NoMessage,
                  tool_calls |-> NoMessage, data |-> <<>>]
  /\ message_annotations = Undefined
  /\ nextId = 0
  /\ updates = <<>>
  /\ pcrPc = "reading"
  /\ received = <<>>
  /\ written = <<>>
  /\ pending = <<>>
  /\ outcome = NoOutcome

ReconstructorIdle == ReconstructorNew /\ abortControllerRef = "none"

\* closure state of createCallbacksTransformer (line 150) and of
\* createFunctionCallTransformer (lines 713-716) in a new pipeline
NewLevel(onFinal) ==
  [isFirstChunk |-> TRUE, isFunctionStreamingIn |-> FALSE,
   aggregatedResponse |-> "", aggregatedFinalCompletionResponse |-> "",
   cbAggregated |-> "", onFinal |-> onFinal, pc |-> "transform", seen |-> <<>>]

NoCallbacks == [fnKey |-> "absent", tool |-> FALSE, final |-> FALSE, complex |-> FALSE]

\* readDataStream before its first read, lines 1266-1271, on an empty source
NoChunks == [some |-> FALSE, bytes |-> ""]
NewLog == [reads |-> 0, checks |-> <<>>, cancels |-> <<>>, batches |-> 0,
           endBatches |-> 0]
ReaderNew ==
  /\ chunks = NoChunks /\ rdBatch = <<>> /\ rdOut = <<>> /\ rdPc = "read"
  /\ rdLog = NewLog
ReaderIdle == ReaderNew /\ rdLines = <<>> /\ rdRest = "" /\ isAborted = "none"

\* experimental_AssistantResponse has not been called
NewArLog == [invokedAt |-> 0, given |-> Undefined, sends |-> <<>>,
             thrown |-> <<>>, closes |-> 0, lateSend |-> FALSE]

AssistantIdle ==
  /\ arIds = Undefined /\ arOut = <<>> /\ arPc = "new" /\ arLog = NewArLog

\* createCallbacksTransformer has not been called
NoHooks == [onStart |-> FALSE, onToken |-> FALSE, onCompletion |-> FALSE,
                onFinal |-> FALSE, fnKey |-> "absent"]

CallbacksStageNew ==
  /\ ctAggregatedResponse = "" /\ ctOut = <<>> /\ ctPc = "start"
  /\ ctLog = [units |-> <<>>, hooks |-> <<>>]

CallbacksStageIdle == CallbacksStageNew /\ callbacks = NoHooks

\* the calls of complete() the model follows
RequestIds == {"A", "B"}

NoResponse == [ok |-> FALSE, text |-> "", body |-> FALSE, complex |-> FALSE,
               chunks |-> <<>>]

\* a call of complete() that has not been made
NewRequest ==
  [pc |-> "idle", res |-> NoResponse, rest |-> <<>>, result |-> "",
   streamedResponse |-> "", existingData |-> <<>>, aborted |-> FALSE,
   stopped |-> "none", stopCalled |-> FALSE, value |-> "pending",
   thrown |-> "none", returned |-> <<>>,
   setCompletion |-> <<>>, onData |-> <<>>, onFinish |-> <<>>, onError |-> <<>>,
   cancels |-> 0]

\* useCompletion has rendered and complete() was never called
ClientIdle ==
  /\ ucCompletion = "" /\ isLoading = FALSE /\ ucError = "undefined"
  /\ streamData = <<>> /\ abortCurrent = "null"
  /\ reqs = [r \in RequestIds |-> NewRequest]

InterceptorIdle ==
  /\ cb = NoCallbacks
  /\ levels = <<NewLevel(FALSE)>>
  /\ fnOut = <<>>
  /\ finalCalls = <<>>
  /\ calls = <<>>

InitDecode ==
  /\ line \in DecodeLines /\ part = Pending /\ encoded = NotEncoded
  /\ StreamDataNew /\ ReconstructorIdle /\ InterceptorIdle /\ ReaderIdle
  /\ AssistantIdle /\ CallbacksStageIdle /\ ClientIdle

\* decode(line)
Decode ==
  /\ part = Pending
  /\ encoded = NotEncoded
  /\ part' = parseStreamPart(line)
  /\ UNCHANGED <<line, encoded, notDecVars>>

NextDecode == Decode

SpecDecode == InitDecode /\ [][NextDecode]_vars

(***************************************************************************)
(* Encoding then decoding one part: formatStreamPart, then parseStreamPart *)
(* on the line it returned.                                                *)
(***************************************************************************)
StreamPartTypes == {streamParts[i][2] : i \in 1..Len(streamParts)}

\* the values a caller may hand to formatStreamPart: it validates nothing
EncodeValues == PayloadPool \cup ToolCallPayloads

InitRoundTrip ==
  /\ encoded \in [type : StreamPartTypes, value : EncodeValues]
  /\ line = "" /\ part = Pending
  /\ StreamDataNew /\ ReconstructorIdle /\ InterceptorIdle /\ ReaderIdle
  /\ AssistantIdle /\ CallbacksStageIdle /\ ClientIdle

\* line = formatStreamPart(type, value)
Encode ==
  /\ line = ""
  /\ line' = formatStreamPart(encoded.type, encoded.value)
  /\ UNCHANGED <<part, encoded, notDecVars>>

\* parseStreamPart(line) on the encoded line
DecodeEncoded ==
  /\ line # "" /\ part = Pending
  /\ part' = parseStreamPart(line)
  /\ UNCHANGED <<line, encoded, notDecVars>>

NextRoundTrip == Encode \/ DecodeEncoded

SpecRoundTrip == InitRoundTrip /\ [][NextRoundTrip]_vars

(***************************************************************************)
(* streams/stream-data.ts : experimental_StreamData.  The buffer's methods *)
(* are called by the application at any time; transform and flush are      *)
(* called by the stream, flush once the upstream has ended.                *)
(***************************************************************************)
DataValues == {JNum(1), JObj(<< <<"a", JNum(1)>> >>)}
AnnotationValues == {JStr("A"), JStr("B")}
\* the text of the content units reaching the buffer's stream
ContentTexts == {"Hi", " there"}

OpsDone == Cardinality({i \in 1..Len(hist) : hist[i][1] # "close"})

\* what the guard of lines 480, 491 and 497 would be if it never fired
StreamData_closedCheck_Never == FALSE

\* if (this.isClosed) throw ..., lines 480-482, 491-493, 497-499
StreamData_closedCheck == isClosed

\* append(value), lines 490-495
StreamData_append(value) ==
  /\ OpsDone < MaxOps
  /\ IF StreamData_closedCheck
     THEN /\ lastCall' = [op |-> "append", threw |-> TRUE]
          /\ UNCHANGED <<data, hist>>
     ELSE /\ data' = Append(data, value)
          /\ hist' = Append(hist, <<"data", value>>)
          /\ lastCall' = [op |-> "append", threw |-> FALSE]
  /\ UNCHANGED <<messageAnnotations, isClosed, isClosedPromise, sdPc, sdOut, notSdVars>>

\* appendMessageAnnotation(value), lines 496-501
StreamData_appendMessageAnnotation(value) ==
  /\ OpsDone < MaxOps
  /\ IF StreamData_closedCheck
     THEN /\ lastCall' = [op |-> "appendMessageAnnotation", threw |-> TRUE]
          /\ UNCHANGED <<messageAnnotations, hist>>
     ELSE /\ messageAnnotations' = Append(messageAnnotations, value)
          /\ hist' = Append(hist, <<"ann", value>>)
          /\ lastCall' = [op |-> "appendMessageAnnotation", threw |-> FALSE]
  /\ UNCHANGED <<data, isClosed, isClosedPromise, sdPc, sdOut, notSdVars>>

\* close(), lines 479-489; this.controller is set since the constructor
StreamData_close ==
  /\ IF StreamData_closedCheck
     THEN /\ lastCall' = [op |-> "close", threw |-> TRUE]
          /\ UNCHANGED <<isClosed, isClosedPromise, hist>>
     ELSE /\ isClosedPromise' = "resolved"
          /\ isClosed' = TRUE
          /\ hist' = Append(hist, <<"close", JNull>>)
          /\ lastCall' = [op |-> "close", threw |-> FALSE]
  /\ UNCHANGED <<data, messageAnnotations, sdPc, sdOut, notSdVars>>

\* mutant: the content unit is enqueued before the pending batches
StreamData_transformOutput_ChunkFirst(chunk) ==
  <<chunk>>
  \o (IF Len(data) > 0 THEN <<formatStreamPart("data", JArr(data))>> ELSE <<>>)
  \o (IF Len(messageAnnotations) # 0
      THEN <<formatStreamPart("message_annotations", JArr(messageAnnotations))>>
      ELSE <<>>)

\* what transform would enqueue if it did not test the queues for emptiness
StreamData_transformOutput_Unguarded(chunk) ==
  <<formatStreamPart("data", JArr(data)),
    formatStreamPart("message_annotations", JArr(messageAnnotations)),
    chunk>>

\* what transform enqueues for a chunk, lines 438-452
StreamData_transformOutput(chunk) ==
  (IF Len(data) > 0 THEN <<formatStreamPart("data", JArr(data))>> ELSE <<>>)
  \o (IF Len(messageAnnotations) # 0
      THEN <<formatStreamPart("message_annotations", JArr(messageAnnotations))>>
      ELSE <<>>)
  \o <<chunk>>

\* stream.transform(chunk, controller), lines 437-453; the chunk is the
\* text part createStreamDataTransformer made of the text (lines 513-518)
StreamData_transform(text) ==
  /\ sdPc = "open"
  /\ OpsDone < MaxOps
  /\ sdOut' = sdOut \o StreamData_transformOutput(formatStreamPart("text", JStr(text)))
  /\ data' = <<>>
  /\ messageAnnotations' = <<>>
  /\ hist' = Append(hist, <<"unit", JStr(text)>>)
  /\ UNCHANGED <<isClosed, isClosedPromise, sdPc, lastCall, notSdVars>>

\* stream.flush(controller) up to its await, lines 454-460: the upstream ended
StreamData_flushAwait ==
  /\ sdPc = "open"
  /\ sdPc' = "flushing"
  /\ UNCHANGED <<data, messageAnnotations, isClosed, isClosedPromise, sdOut,
                 lastCall, hist, notSdVars>>

\* mutant: flush does not await the close signal
StreamData_flushMayResume_NoAwait == TRUE

\* whether the awaited isClosedPromise lets flush go on
StreamData_flushMayResume == isClosedPromise = "resolved"

\* mutant: the final flush forgets the pending annotations
StreamData_flushOutput_DataOnly ==
  IF Len(data) # 0 THEN <<formatStreamPart("data", JArr(data))>> ELSE <<>>

\* what flush would enqueue if it ended the stream without a last flush
StreamData_flushOutput_None == <<>>

\* what flush enqueues after the await, lines 464-475
StreamData_flushOutput ==
  (IF Len(data) # 0 THEN <<formatStreamPart("data", JArr(data))>> ELSE <<>>)
  \o (IF Len(messageAnnotations) # 0
      THEN <<formatStreamPart("message_annotations", JArr(messageAnnotations))>>
      ELSE <<>>)

\* stream.flush(controller) after its await, lines 461-476: the stream ends
StreamData_flushResume ==
  /\ sdPc = "flushing"
  /\ StreamData_flushMayResume
  /\ sdOut' = sdOut \o StreamData_flushOutput
  /\ sdPc' = "done"
  /\ UNCHANGED <<data, messageAnnotations, isClosed, isClosedPromise, lastCall,
                 hist, notSdVars>>

InitData ==
  /\ StreamDataNew /\ DecodeIdle /\ ReconstructorIdle /\ InterceptorIdle /\ ReaderIdle
  /\ AssistantIdle /\ CallbacksStageIdle /\ ClientIdle

NextData ==
  \/ \E v \in DataValues : StreamData_append(v)
  \/ \E v \in AnnotationValues : StreamData_appendMessageAnnotation(v)
  \/ StreamData_close
  \/ \E t \in ContentTexts : StreamData_transform(t)
  \/ StreamData_flushAwait
  \/ StreamData_flushResume

SpecData == InitData /\ [][NextData]_vars

\* the awaited promise, once resolved, resumes flush
SpecDataFair == SpecData /\ WF_vars(StreamData_flushResume)

(***************************************************************************)
(* shared/parse-complex-response.ts : parseComplexResponse.  The pass     *)
(* iterates readDataStream, which decodes a whole batch of lines (line     *)
(* 1286) and then yields its parts one by one to the loop body.            *)
(***************************************************************************)
ReconLines ==
  { formatStreamPart("text", JStr("Hi")), formatStreamPart("text", JStr(" there")),
    formatStreamPart("function_call", FunctionCallPayload("f", "{}")),
    formatStreamPart("function_call", FunctionCallPayload("g", "{}")),
    formatStreamPart("tool_calls",
      JObj(<< <<"tool_calls", JArr(<<JObj(<< <<"id", JStr("t1")>>,
         <<"type", JStr("function")>>,
         <<"function", JObj(<< <<"name", JStr("g")>>,
                               <<"arguments", JStr("{}")>> >>)>> >>)>>)>> >>)),
    formatStreamPart("data", JArr(<<JObj(<< <<"a", JNum(1)>> >>)>>)),
    formatStreamPart("data", JArr(<<JNum(2), JNum(3)>>)),
    formatStreamPart("message_annotations", JArr(<<JStr("A")>>)),
    formatStreamPart("message_annotations", JArr(<<JStr("B")>>)),
    "9:\"x\"\n", "Hi\n", "0:{\n", "0:1\n" }

Exists(m) == m.kind # "none"

\* assignAnnotationsToMessage(message, annotations), lines 1298-1302
assignAnnotationsToMessage(message, annotations) ==
  IF ~Exists(message) \/ annotations = Undefined \/ annotations = <<>>
  THEN message
  ELSE [message EXCEPT !.annotations = annotations]

\* what line 1321 would be if the new text replaced the content
appendContent_Replace(content, value) == value

\* what line 1321 would be if the new text were put in front
appendContent_Prepend(content, value) == value \o content

\* line 1321: (prefixMap["text"].content || "") + value
appendContent(content, value) == content \o value

\* prefixMap after the part's own branch, lines 1319-1359; id is generateId()
prefixMapAfterPart(pm, type, value, id) ==
  CASE type = "text" ->
         IF Exists(pm.text)
         THEN [pm EXCEPT !.text.content = appendContent(pm.text.content, value[2])]
         ELSE [pm EXCEPT !.text = [kind |-> "text", id |-> id, content |-> value[2],
                                   payload |-> Undefined, annotations |-> Undefined]]
    [] type = "function_call" ->
         [pm EXCEPT !.function_call =
            [kind |-> "function_call", id |-> id, content |-> "",
             payload |-> Get(value, "function_call"), annotations |-> Undefined]]
    [] type = "tool_calls" ->
         [pm EXCEPT !.tool_calls =
            [kind |-> "tool_calls", id |-> id, content |-> "",
             payload |-> Get(value, "tool_calls"), annotations |-> Undefined]]
    [] type = "data" -> [pm EXCEPT !.data = pm.data \o value[2]]
    [] OTHER -> pm

\* message_annotations after the part, lines 1361-1366
annotationsAfterPart(anns, type, value) ==
  IF type = "message_annotations"
  THEN IF anns = Undefined THEN value[2] ELSE anns \o value[2]
  ELSE anns

\* what lines 1380-1391 would be if nothing were copied
stampAnnotations_None(pm, anns) == pm

\* lines 1380-1391: the list is copied onto every accumulator present
stampAnnotations(pm, anns) ==
  IF anns # Undefined /\ anns # <<>>
  THEN [k \in DOMAIN pm |->
          IF k # "data" /\ Exists(pm[k])
          THEN [pm[k] EXCEPT !.annotations = anns] ELSE pm[k]]
  ELSE pm

\* functionCallMessage, toolCallMessage and responseMessage as they stand at
\* line 1392: the call messages are null unless this very part set them
\* (lines 1334, 1344, 1346, 1355) or is a message_annotations part
\* (lines 1367-1374); responseMessage is always prefixMap.text (line 1360)
mergedCandidates(pm, type) ==
  << IF type \in {"function_call", "message_annotations"}
     THEN pm.function_call ELSE NoMessage,
     IF type \in {"tool_calls", "message_annotations"}
     THEN pm.tool_calls ELSE NoMessage,
     pm.text >>

\* lines 1392-1394: filter(Boolean), then a copy carrying the annotations
RECURSIVE mergedFrom(_, _, _)
mergedFrom(cands, i, anns) ==
  IF i > Len(cands) THEN <<>>
  ELSE (IF Exists(cands[i])
        THEN <<assignAnnotationsToMessage(cands[i], anns)>> ELSE <<>>)
       \o mergedFrom(cands, i + 1, anns)

\* needsId: whether the part's branch calls generateId()
needsId(pm, type) ==
  \/ type = "text" /\ ~Exists(pm.text)
  \/ type \in {"function_call", "tool_calls"}

\* what the test in the loop would be if no parse error were thrown
decodeThrows_Never(p) == FALSE

\* parseStreamPart throws inside readDataStream (line 1286); nothing in
\* readDataStream or parseComplexResponse catches it
decodeThrows(p) == ~p.ok

\* lines 1317 and 1290-1293: after a batch, isAborted() is true and
\* readDataStream cancels the reader and returns
stopsReading(ref) == ref = "null"

\* line 1286: parseStreamPart on each line the pass can be given
streamPartOf == [l \in ReconLines |-> parseStreamPart(l)]

\* the batches of at most n lines one round of readDataStream's loop can
\* decode; the lines after one that fails are never looked at (map throws),
\* so a batch ends at its first line from the last four of ReconLines
Batches(n) ==
  LET bad == {"9:\"x\"\n", "Hi\n", "0:{\n", "0:1\n"}
  IN UNION {[1..k -> ReconLines \ bad] : k \in 1..n}
       \cup UNION {{Append(ls, b) : ls \in [1..k -> ReconLines \ bad], b \in bad} :
                    k \in 0..(n - 1)}

\* line 1286: map(parseStreamPart) decodes every line of the batch before
\* the first part is yielded, and throws at the first line that fails
firstThrowing(ps) ==
  CHOOSE i \in 1..Len(ps) :
    decodeThrows(ps[i]) /\ \A j \in 1..(i - 1) : ~decodeThrows(ps[j])

\* the iterator is asked for a part and none is pending: readDataStream
\* reads and decodes the next batch, lines 1272-1286
parseComplexResponse_next ==
  /\ pcrPc = "reading"
  /\ pending = <<>>
  /\ \E ls \in Batches(MaxParts - Len(written)) :
     \E ps \in {[i \in 1..Len(ls) |-> streamPartOf[ls[i]]]} :
       IF \E i \in 1..Len(ps) : decodeThrows(ps[i])
       THEN /\ pcrPc' = "failed"
            /\ outcome' = [outcome EXCEPT !.error = ps[firstThrowing(ps)].err]
            /\ pending' = <<>>
            /\ written' = written \o SubSeq(ls, 1, firstThrowing(ps))
       ELSE /\ pending' = ps
            /\ written' = written \o ls
            /\ UNCHANGED <<pcrPc, outcome>>
  /\ UNCHANGED <<prefixMap, message_annotations, nextId, updates, received,
                 abortControllerRef, notPcrVars>>

\* one turn of the for-await loop, lines 1316-1396, on the next part of the
\* batch (lines 1287-1289); after the last part of the batch readDataStream
\* asks isAborted (lines 1290-1293)
parseComplexResponse_part ==
  /\ pcrPc = "reading"
  /\ pending # <<>>
  /\ pending' = Tail(pending)
  /\ \E p \in {Head(pending)} :
      \E anns \in {annotationsAfterPart(message_annotations, p.type, p.value)} :
      \E pm2 \in {stampAnnotations(
                     prefixMapAfterPart(prefixMap, p.type, p.value, nextId + 1),
                     anns)} :
        /\ prefixMap' = pm2
        /\ message_annotations' = anns
        /\ nextId' = IF needsId(prefixMap, p.type) THEN nextId + 1 ELSE nextId
        /\ updates' = Append(updates,
             [messages |-> mergedFrom(mergedCandidates(pm2, p.type), 1, anns),
              data |-> pm2.data])
        /\ received' = Append(received, p)
  /\ pcrPc' = IF Tail(pending) = <<>> /\ stopsReading(abortControllerRef)
              THEN "canceled" ELSE "reading"
  /\ outcome' = IF Tail(pending) = <<>> /\ stopsReading(abortControllerRef)
                THEN [outcome EXCEPT !.canceled = TRUE] ELSE outcome
  /\ UNCHANGED <<written, abortControllerRef, notPcrVars>>

\* what lines 1400-1404 would be if the accumulators were dropped
resultMessages_Dropped(pm) == <<>>

\* lines 1400-1404: the messages returned
resultMessages(pm) ==
  mergedFrom(<<pm.text, pm.function_call, pm.tool_calls>>, 1, Undefined)

\* the iteration is over (the source ended, or the reader was canceled):
\* onFinish and the return, lines 1397-1405
parseComplexResponse_end ==
  /\ pcrPc \in {"reading", "canceled"}
  /\ pending = <<>>
  /\ pcrPc' = "finished"
  /\ outcome' = [outcome EXCEPT
       !.finishCalls = Append(@, prefixMap),
       !.result = <<[messages |-> resultMessages(prefixMap), data |-> prefixMap.data]>>]
  /\ UNCHANGED <<prefixMap, message_annotations, nextId, updates, received,
                 written, pending, abortControllerRef, notPcrVars>>

\* the caller's stop(): abortControllerRef.current = null
AbortRequested ==
  /\ abortControllerRef = "set"
  /\ pcrPc = "reading"
  /\ abortControllerRef' = "null"
  /\ UNCHANGED <<prefixMap, message_annotations, nextId, updates, pcrPc, received,
                 written, pending, outcome, notPcrVars>>

InitParse ==
  /\ ReconstructorNew
  /\ abortControllerRef \in {"none", "set"}
  /\ DecodeIdle /\ StreamDataNew /\ InterceptorIdle /\ ReaderIdle
  /\ AssistantIdle /\ CallbacksStageIdle /\ ClientIdle

NextParse ==
  \/ parseComplexResponse_next
  \/ parseComplexResponse_part
  \/ parseComplexResponse_end
  \/ AbortRequested

SpecParse == InitParse /\ [][NextParse]_vars

(***************************************************************************)
(* streams/openai-stream.ts : OpenAIStream and createFunctionCallTransformer*)
(* A level is one OpenAIStream pipeline: createCallbacksTransformer, then  *)
(* the interceptor if a callback is configured, else                       *)
(* createStreamDataTransformer.  The outer pipeline's flush, when its      *)
(* callback returns a continuation, runs a nested pipeline on it and       *)
(* enqueues what it reads from it (lines 863-874).                         *)
(***************************************************************************)
FunctionCallOpening == "{\"function_call\":"
ToolCallsOpening == "{\"tool_calls\":"
FunctionCallRest == "{\"name\":\"f\",\"arguments\":\"{}\"}}"

\* the units a source stream may deliver
Units ==
  { "Hi",
    FunctionCallOpening,
    FunctionCallRest,
    FunctionCallOpening \o FunctionCallRest,
    "{\"tool_calls\":[{\"id\":\"t1\",\"type\":\"function\","
      \o "\"function\":{\"name\":\"g\",\"arguments\":\"{}\"}}]}" }

\* what a user callback does: return nothing, return a string (a non-empty
\* one or the empty one), return a continuation (a new response to stream),
\* or throw
Outcomes == {"nothing", "string", "empty", "continue", "throw"}
\* the string a callback returns
ReturnedString(o) == IF o = "empty" THEN "" ELSE "OK"

\* line 841: !functionResponse
responseFalsy(o) ==
  o = "nothing" \/ (o \in {"string", "empty"} /\ ReturnedString(o) = "")

\* what line 724 would be if no unit were taken for the opening of a call
shouldHandleAsFunction_Never(L, message) == FALSE

Top == levels[Len(levels)]

RECURSIVE TotalSeen(_)
TotalSeen(i) == IF i > Len(levels) THEN 0 ELSE Len(levels[i].seen) + TotalSeen(i + 1)

\* lines 702-709 if every pipeline had the interceptor
interceptorInstalled_Always(c) == TRUE

\* lines 682, 694, 702: cb.experimental_onFunctionCall || cb.experimental_onToolCall
interceptorInstalled(c) == c.fnKey = "set" \/ c.tool

\* line 733 if the text were forwarded as it is when multiplexing too
forwardText_Raw(c, message) == message

\* line 733 / lines 513-518: a forwarded text, as a text part when multiplexing
forwardText(c, message) ==
  IF c.complex THEN formatStreamPart("text", JStr(message)) ELSE message

\* line 724
shouldHandleAsFunction(L, message) ==
  /\ L.isFirstChunk
  /\ (StartsWith(message, FunctionCallOpening) \/ StartsWith(message, ToolCallsOpening))

\* createFunctionCallTransformer.transform, lines 721-739: the level after
\* the message; isFirstChunk is written on line 728 only
interceptorTransform(L, message) ==
  LET L1 == [L EXCEPT !.aggregatedFinalCompletionResponse = @ \o message] IN
  IF shouldHandleAsFunction(L, message)
  THEN [L1 EXCEPT !.isFunctionStreamingIn = TRUE,
                  !.aggregatedResponse = @ \o message,
                  !.isFirstChunk = FALSE]
  ELSE IF ~L.isFunctionStreamingIn THEN L1
       ELSE [L1 EXCEPT !.aggregatedResponse = @ \o message]

\* what that transform enqueues, lines 731-735
interceptorTransformOutput(c, L, message) ==
  IF ~shouldHandleAsFunction(L, message) /\ ~L.isFunctionStreamingIn
  THEN <<forwardText(c, message)>>
  ELSE <<>>

\* one unit through a pipeline: createCallbacksTransformer.transform
\* (lines 157-162), then the interceptor or createStreamDataTransformer
OpenAIStream_transform(message) ==
  /\ Top.pc = "transform"
  /\ TotalSeen(1) < MaxUnits
  /\ LET L0 == [Top EXCEPT !.cbAggregated = @ \o message, !.seen = Append(@, message)]
         L1 == IF interceptorInstalled(cb) THEN interceptorTransform(L0, message) ELSE L0
         out == IF interceptorInstalled(cb)
                THEN interceptorTransformOutput(cb, Top, message)
                ELSE <<forwardText(cb, message)>>
     IN /\ levels' = [levels EXCEPT ![Len(levels)] = L1]
        /\ fnOut' = fnOut \o out
  /\ UNCHANGED <<cb, finalCalls, calls, notFnVars>>

\* JSON.parse(payload.function_call.arguments), lines 755-757, does not throw
argumentsParse(fcall) ==
  LET args == Get(fcall, "arguments") IN
  CASE IsStr(args) -> JSONparse(args[2]).ok
    [] Tag(args) \in {"num", "bool", "null"} -> TRUE
    [] OTHER -> FALSE

\* lines 785-794 do not throw: payload.tool_calls is iterable and every
\* element has a function member to read the name of
toolCallsReadable(payload) ==
  LET tcs == Get(payload, "tool_calls") IN
  /\ IsArr(tcs)
  /\ \A i \in 1..Len(tcs[2]) :
       ~IsNullish(tcs[2][i]) /\ ~IsNullish(Get(tcs[2][i], "function"))

\* lines 841-850: the buffered payload, forwarded when there is no response
forwardPayload(c, L, payload) ==
  IF c.complex
  THEN formatStreamPart(IF Truthy(Get(payload, "function_call"))
                        THEN "function_call" ELSE "tool_calls",
                        JSONparse(L.aggregatedResponse).val)
  ELSE L.aggregatedResponse

\* lines 852-856: the callback's string, forwarded as one chunk
forwardResponse(c, response) ==
  IF c.complex THEN formatStreamPart("text", JStr(response)) ELSE response

\* whether flush lets the error of experimental_onFunctionCall escape: the
\* call on lines 758-779 is in no try block of its own (the only handler of
\* the flush is the finally of line 876)
functionCallErrorEscapes == TRUE

\* createFunctionCallTransformer.flush, the try block of lines 741-875, with
\* oFn and oTool what the two callbacks do if they are called.  The result:
\* kind "done" (flush returns), "throw" (flush throws) or "continue" (a
\* nested pipeline starts), out the chunks enqueued, fn and tool the
\* outcome of each callback that was called ("none" if it was not)
interceptorFlush(c, L, oFn, oTool) ==
  LET R(k, out, f, t) == [kind |-> k, out |-> out, fn |-> f, tool |-> t]
      parsed == JSONparse(L.aggregatedResponse)
      payload == parsed.val
      fcall == Get(payload, "function_call")
      fnSet == c.fnKey = "set"
      fnThrowsBefore == fnSet /\ (IsNullish(fcall) \/ ~argumentsParse(fcall))
      resp1 == IF fnSet THEN oFn ELSE "nothing"
      toolThrowsBefore == c.tool /\ ~toolCallsReadable(payload)
      resp2 == IF c.tool /\ oTool # "throw" THEN oTool
               ELSE IF resp1 = "throw" THEN "nothing" ELSE resp1
      fnRec == IF fnSet THEN oFn ELSE "none"
      toolRec == IF c.tool THEN oTool ELSE "none"
  IN
  IF ~(~L.isFirstChunk /\ L.isFunctionStreamingIn /\ interceptorInstalled(c))
  THEN R("done", <<>>, "none", "none")
  ELSE IF ~parsed.ok THEN R("throw", <<>>, "none", "none")
  ELSE IF fnThrowsBefore THEN R("throw", <<>>, "none", "none")
  ELSE IF fnSet /\ oFn = "throw" /\ functionCallErrorEscapes
       THEN R("throw", <<>>, "throw", "none")
  ELSE IF toolThrowsBefore THEN R("throw", <<>>, fnRec, "none")
  ELSE CASE responseFalsy(resp2) -> R("done", <<forwardPayload(c, L, payload)>>, fnRec, toolRec)
         [] resp2 = "string" -> R("done", <<forwardResponse(c, ReturnedString(resp2))>>, fnRec, toolRec)
         [] resp2 = "continue" -> R("continue", <<>>, fnRec, toolRec)

\* the finally of lines 876-880: whether onFinal is called
interceptorFiresFinal(L) == L.onFinal /\ L.aggregatedFinalCompletionResponse # ""

\* a call of onFinal: its argument, and how many chunks had been enqueued
onFinalCall(completion, out) == [completion |-> completion, outLen |-> Len(out)]

\* createCallbacksTransformer.flush, lines 163-171, for the callbacks
\* OpenAIStream hands it (lines 682-700): onFinal is dropped when a
\* callback is configured, and isOfTypeOpenAIStreamCallbacks (line 175)
\* looks for the key experimental_onFunctionCall
callbacksTransformerFiresFinal(c, L) ==
  /\ L.onFinal
  /\ ~interceptorInstalled(c)
  /\ c.fnKey = "absent"

\* the source of the innermost pipeline ends: createCallbacksTransformer.flush
\* then, if installed, createFunctionCallTransformer.flush
OpenAIStream_flush ==
  /\ Top.pc = "transform"
  \* oFn, oTool: what each callback does if flush calls it
  /\ \E oFn \in (IF cb.fnKey = "set" THEN Outcomes ELSE {"nothing"}),
        oTool \in (IF cb.tool THEN Outcomes ELSE {"nothing"}) :
     \E r \in {IF interceptorInstalled(cb)
                THEN interceptorFlush(cb, Top, oFn, oTool)
                ELSE [kind |-> "done", out |-> <<>>, fn |-> "none", tool |-> "none"]} :
       LET n == Len(levels)
           called == r.fn # "none" \/ r.tool # "none"
           firesCb == callbacksTransformerFiresFinal(cb, Top)
           \* line 862: callbacks.onFinal = void 0, before the nested pipeline
           L1 == [Top EXCEPT !.isFunctionStreamingIn =
                               IF ~Top.isFirstChunk /\ interceptorInstalled(cb)
                               THEN FALSE ELSE @,
                             !.onFinal = IF r.kind = "continue" THEN FALSE ELSE @,
                             !.pc = CASE r.kind = "done" -> "closed"
                                      [] r.kind = "throw" -> "errored"
                                      [] r.kind = "continue" -> "reading"]
           firesFn == /\ interceptorInstalled(cb)
                      /\ r.kind # "continue"
                      /\ interceptorFiresFinal(Top)
       IN /\ (r.kind = "continue") => (n < MaxDepth)
          /\ levels' = IF r.kind = "continue"
                       THEN Append([levels EXCEPT ![n] = L1], NewLevel(Top.onFinal))
                       ELSE [levels EXCEPT ![n] = L1]
          /\ fnOut' = fnOut \o r.out
          /\ finalCalls' =
               finalCalls
               \o (IF firesCb THEN <<onFinalCall(Top.cbAggregated, fnOut)>> ELSE <<>>)
               \o (IF firesFn
                   THEN <<onFinalCall(Top.aggregatedFinalCompletionResponse,
                                      fnOut \o r.out)>>
                   ELSE <<>>)
          /\ calls' = IF called
                      THEN Append(calls, [level |-> n, fn |-> r.fn, tool |-> r.tool,
                                          result |-> r.kind,
                                          payload |-> Top.aggregatedResponse,
                                          outLen |-> Len(fnOut)])
                      ELSE calls
  /\ UNCHANGED <<cb, notFnVars>>

\* the nested pipeline has ended: the read loop of lines 868-874 leaves (or
\* read() rejects), the finally of lines 876-880 runs, flush returns
OpenAIStream_continuationEnd ==
  /\ Len(levels) > 1
  /\ Top.pc \in {"closed", "errored"}
  /\ LET n == Len(levels) - 1
         parent == levels[n]
     IN /\ levels' = [SubSeq(levels, 1, n) EXCEPT ![n].pc = Top.pc]
        /\ finalCalls' = finalCalls
             \o (IF interceptorFiresFinal(parent)
                 THEN <<onFinalCall(parent.aggregatedFinalCompletionResponse, fnOut)>>
                 ELSE <<>>)
  /\ UNCHANGED <<cb, fnOut, calls, notFnVars>>

CallbackConfigs ==
  [fnKey : {"absent", "novalue", "set"}, tool : BOOLEAN, final : BOOLEAN,
   complex : BOOLEAN]

InitFn ==
  /\ cb \in CallbackConfigs
  /\ levels = <<NewLevel(cb.final)>>
  /\ fnOut = <<>>
  /\ finalCalls = <<>>
  /\ calls = <<>>
  /\ DecodeIdle /\ StreamDataNew /\ ReconstructorIdle /\ ReaderIdle
  /\ AssistantIdle /\ CallbacksStageIdle /\ ClientIdle

NextFn ==
  \/ \E u \in Units : OpenAIStream_transform(u)
  \/ OpenAIStream_flush
  \/ OpenAIStream_continuationEnd

SpecFn == InitFn /\ [][NextFn]_vars

(***************************************************************************)
(* shared/read-data-stream.ts : readDataStream, lines 1255-1295.  The      *)
(* reader delivers the source's bytes in chunks of any length; chunks is   *)
(* kept as what concatChunks makes of it (the bytes in order) and whether  *)
(* it holds a chunk at all (an empty chunk counts).                        *)
(***************************************************************************)
\* the parts a producer writes, and a line no producer writes
ReadParts ==
  { [type |-> "text", value |-> JStr("hi")],
    [type |-> "data", value |-> JArr(<<JNum(1)>>)] }
BadLine == "9:1\n"
ReadLines == {formatStreamPart(p.type, p.value) : p \in ReadParts} \cup {BadLine}

RECURSIVE Concat(_, _)
Concat(seq, i) == IF i > Len(seq) THEN "" ELSE seq[i] \o Concat(seq, i + 1)

\* text.split("\n").filter((line) => line !== ""), line 1286
RECURSIVE SplitLines(_, _, _)
SplitLines(text, i, cur) ==
  IF i > Len(text) THEN (IF cur = "" THEN <<>> ELSE <<cur>>)
  ELSE IF Ch(text, i) = "\n"
       THEN (IF cur = "" THEN <<>> ELSE <<cur>>) \o SplitLines(text, i + 1, "")
       ELSE SplitLines(text, i + 1, cur \o Ch(text, i))

\* .map(parseStreamPart), line 1286
streamParts2(text) ==
  LET lines == SplitLines(text, 1, "") IN
  [i \in 1..Len(lines) |-> parseStreamPart(lines[i])]

\* what the test of line 1276 would be if every chunk ended a batch
endsBatch_Always(value) == TRUE

\* what the test of line 1277 would be if it looked at the length only
endsBatch_NonEmpty(value) == value # ""

\* line 1276: value[value.length - 1] === NEWLINE
endsBatch(value) == value # "" /\ Ch(value, Len(value)) = "\n"

\* lines 1279-1289 : chunks are concatenated, decoded and parsed; map() has
\* parsed every line before the first part is yielded; atEnd: the read
\* that led here delivered no value
readDataStream_batch(held, atEnd) ==
  IF ~held.some
  THEN /\ rdPc' = "done"
       /\ UNCHANGED <<chunks, rdBatch>>
       /\ rdLog' = [rdLog EXCEPT !.reads = @ + 1]
  ELSE \E parts \in {streamParts2(held.bytes)} :
         /\ chunks' = NoChunks
         /\ rdLog' = [rdLog EXCEPT !.reads = @ + 1, !.batches = @ + 1,
                                   !.endBatches = IF atEnd THEN @ + 1 ELSE @]
         /\ IF \E i \in 1..Len(parts) : ~parts[i].ok
            THEN rdPc' = "failed" /\ UNCHANGED rdBatch
            ELSE /\ rdBatch' = parts
                 /\ rdPc' = IF parts = <<>> THEN "check" ELSE "yield"

\* reader.read() resolves with a chunk of k bytes, lines 1273-1278
readDataStream_read ==
  /\ rdPc = "read"
  /\ rdRest # ""
  \* an empty chunk is delivered only into an empty chunks array
  /\ \E k \in (IF chunks.some THEN 1 ELSE 0)..Len(rdRest) :
     \E value \in {Sub(rdRest, 1, k)} :
     \E held \in {[some |-> TRUE, bytes |-> chunks.bytes \o value]} :
       /\ rdRest' = Sub(rdRest, k + 1, Len(rdRest))
       /\ IF endsBatch(value)
          THEN readDataStream_batch(held, FALSE)
          ELSE /\ chunks' = held
               /\ rdLog' = [rdLog EXCEPT !.reads = @ + 1]
               /\ UNCHANGED <<rdBatch, rdPc>>
  /\ UNCHANGED <<rdLines, isAborted, rdOut, notRdVars>>

\* reader.read() resolves with no value: the source has ended
readDataStream_readEnd ==
  /\ rdPc = "read"
  /\ rdRest = ""
  /\ readDataStream_batch(chunks, TRUE)
  /\ UNCHANGED <<rdLines, rdRest, isAborted, rdOut, notRdVars>>

\* lines 1287-1289: one part of the batch is yielded
readDataStream_yield ==
  /\ rdPc = "yield"
  /\ rdOut' = Append(rdOut, Head(rdBatch))
  /\ rdBatch' = Tail(rdBatch)
  /\ rdPc' = IF Len(rdBatch) = 1 THEN "check" ELSE "yield"
  /\ UNCHANGED <<rdLines, rdRest, chunks, isAborted, rdLog, notRdVars>>

\* what line 1290 would be if the predicate were never consulted
abortObserved_Never == FALSE

\* line 1290: isAborted == null ? void 0 : isAborted()
abortObserved == isAborted = "true"

\* lines 1290-1293
readDataStream_check ==
  /\ rdPc = "check"
  /\ rdLog' = [rdLog EXCEPT
       !.checks = Append(@, [aborted |-> isAborted = "true"]),
       !.cancels = IF abortObserved
                   THEN Append(@, [reads |-> rdLog.reads, yielded |-> Len(rdOut)])
                   ELSE @]
  /\ rdPc' = IF abortObserved THEN "done" ELSE "read"
  /\ UNCHANGED <<rdLines, rdRest, chunks, isAborted, rdBatch, rdOut, notRdVars>>

\* the caller's predicate starts returning true
Abort ==
  /\ isAborted = "false"
  /\ rdPc \notin {"done", "failed"}
  /\ isAborted' = "true"
  /\ UNCHANGED <<rdLines, rdRest, chunks, rdBatch, rdOut, rdPc, rdLog, notRdVars>>

\* the bytes of a source that delivers the lines: the last line feed may be
\* missing
Sources(lines) ==
  LET text == Concat(lines, 1)
  IN {text} \cup (IF text = "" THEN {} ELSE {Sub(text, 1, Len(text) - 1)})

InitRead ==
  /\ rdLines \in SeqsUpTo(ReadLines, MaxLines)
  /\ rdRest \in Sources(rdLines)
  /\ isAborted \in {"none", "false", "true"}
  /\ ReaderNew
  /\ DecodeIdle /\ StreamDataNew /\ ReconstructorIdle /\ InterceptorIdle
  /\ AssistantIdle /\ CallbacksStageIdle /\ ClientIdle

NextRead ==
  \/ readDataStream_read
  \/ readDataStream_readEnd
  \/ readDataStream_yield
  \/ readDataStream_check
  \/ Abort

SpecRead == InitRead /\ [][NextRead]_vars

\* the iteration has returned or thrown
readDataStream_over == rdPc \in {"done", "failed"}

\* every await of readDataStream is answered and the consumer keeps asking:
\* weak fairness of NextRead, written out with the condition under which a
\* step is possible (a read, a yield or a check is pending)
SpecReadFair ==
  SpecRead /\ ([]<>readDataStream_over \/ []<><<NextRead>>_vars)

(***************************************************************************)
(* streams/assistant-response.ts : experimental_AssistantResponse.  The    *)
(* stream's start() enqueues the control data, awaits process2, which may  *)
(* call sendMessage and sendDataMessage, sends an error part if process2   *)
(* threw, and closes the controller.                                       *)
(***************************************************************************)
MaxSends == 2

AssistantIds ==
  { JObj(<< <<"threadId", JStr("t1")>>, <<"messageId", JStr("m1")>> >>) }

AssistantMessages ==
  { JObj(<< <<"id", JStr("m1")>>, <<"role", JStr("assistant")>>,
            <<"content", JArr(<<TextContentItem("hi")>>)>> >>),
    JObj(<< <<"id", JStr("m2")>>, <<"role", JStr("assistant")>>,
            <<"content", JArr(<<TextContentItem("yo")>>)>> >>) }

DataMessages ==
  { JObj(<< <<"role", JStr("data")>>, <<"data", JNum(1)>> >>) }

\* what process2 can throw: an Error with a message, a string, an object
\* without a message, null, undefined
ThrownValues ==
  { JObj(<< <<"message", JStr("boom")>> >>), JStr("boom"), JObj(<<>>),
    JNull, Undefined }

\* what line 1218 would be if every thrown value had a message to read
errorMessageOf_Total(error) ==
  [threw |-> FALSE,
   value |-> IF Tag(error) = "obj" /\ HasKey(error, "message")
             THEN Get(error, "message") ELSE JStr("boom")]

\* line 1218: (_a = error.message) != null ? _a : `${error}`; reading
\* .message of null or undefined throws a TypeError
errorMessageOf(error) ==
  IF Tag(error) \in {"null", "undef"}
  THEN [threw |-> TRUE, value |-> Undefined]
  ELSE IF Tag(Get(error, "message")) \notin {"null", "undef"}
       THEN [threw |-> FALSE, value |-> Get(error, "message")]
       ELSE [threw |-> FALSE,
             value |-> IF IsStr(error) THEN error ELSE JStr("[object Object]")]

\* the call and start() up to the await: lines 1203-1216
experimental_AssistantResponse(ids) ==
  /\ arPc = "new"
  /\ arIds' = ids
  /\ arOut' = Append(arOut,
       formatStreamPart("assistant_control_data",
         JObj(<< <<"threadId", Get(ids, "threadId")>>,
                 <<"messageId", Get(ids, "messageId")>> >>)))
  /\ arPc' = "process"
  /\ arLog' = [arLog EXCEPT !.invokedAt = Len(arOut) + 1, !.given = ids]
  /\ UNCHANGED notArVars

\* sendMessage(message), lines 1187-1191, called by process2
sendMessage(message) ==
  /\ arPc = "process"
  /\ Len(arLog.sends) < MaxSends
  /\ arOut' = Append(arOut, formatStreamPart("assistant_message", message))
  /\ arLog' = [arLog EXCEPT !.sends = Append(@, Part("assistant_message", message))]
  /\ UNCHANGED <<arIds, arPc, notArVars>>

\* sendDataMessage(message), lines 1192-1196, called by process2
sendDataMessage(message) ==
  /\ arPc = "process"
  /\ Len(arLog.sends) < MaxSends
  /\ arOut' = Append(arOut, formatStreamPart("data_message", message))
  /\ arLog' = [arLog EXCEPT !.sends = Append(@, Part("data_message", message))]
  /\ UNCHANGED <<arIds, arPc, notArVars>>

\* process2 resolves: the finally block, line 1220
process2_returns ==
  /\ arPc = "process"
  /\ arPc' = "closed"
  /\ arLog' = [arLog EXCEPT !.closes = @ + 1]
  /\ UNCHANGED <<arIds, arOut, notArVars>>

\* process2 rejects with error: the catch block, lines 1217-1218, then the
\* finally block.  When the catch block itself throws, start() rejects
\* after the close: the stream is errored if chunks are still queued (its
\* state is still "readable"), and stays closed otherwise
process2_throws(error) ==
  /\ arPc = "process"
  /\ \E m \in {errorMessageOf(error)} :
       IF m.threw
       THEN /\ arOut' = arOut
            /\ arPc' \in {"closed", "errored"}
       ELSE /\ arOut' = Append(arOut, formatStreamPart("error", m.value))
            /\ arPc' = "closed"
  /\ arLog' = [arLog EXCEPT !.thrown = <<error>>, !.closes = @ + 1]
  /\ UNCHANGED <<arIds, notArVars>>

\* a send function that process2 kept is called after the close:
\* controller.enqueue throws, nothing is enqueued
sendAfterClose ==
  /\ arPc \in {"closed", "errored"}
  /\ ~arLog.lateSend
  /\ arLog' = [arLog EXCEPT !.lateSend = TRUE]
  /\ UNCHANGED <<arIds, arOut, arPc, notArVars>>

InitAssistant ==
  /\ AssistantIdle /\ CallbacksStageIdle /\ ClientIdle
  /\ DecodeIdle /\ StreamDataNew /\ ReconstructorIdle /\ InterceptorIdle /\ ReaderIdle

NextAssistant ==
  \/ \E ids \in AssistantIds : experimental_AssistantResponse(ids)
  \/ \E m \in AssistantMessages : sendMessage(m)
  \/ \E m \in DataMessages : sendDataMessage(m)
  \/ process2_returns
  \/ \E e \in ThrownValues : process2_throws(e)
  \/ sendAfterClose

SpecAssistant == InitAssistant /\ [][NextAssistant]_vars

(***************************************************************************)
(* streams/ai-stream.ts : createCallbacksTransformer, the stage every      *)
(* provider stream pipes its text through.  start() runs when the stage is *)
(* constructed, transform() on each unit, flush() when the source ends.    *)
(***************************************************************************)
MaxTokens == 3

Tokens == {"Hi", " there", ""}

CallbacksConfigs ==
  [onStart : BOOLEAN, onToken : BOOLEAN, onCompletion : BOOLEAN,
   onFinal : BOOLEAN, fnKey : {"absent", "novalue", "set"}]

\* a hook call: its argument and how many chunks had been enqueued
HookCall(hook, arg) == [hook |-> hook, arg |-> arg, outLen |-> Len(ctOut)]

\* what lines 153-156 would be if start() called nothing
startHooks_None(c) == <<>>

\* start(), lines 153-156
startHooks(c) == IF c.onStart THEN <<"onStart">> ELSE <<>>

\* what line 159 would be if the aggregate kept the last unit only
aggregate_Last(aggregated, message) == message

\* line 159: aggregatedResponse += message
aggregate(aggregated, message) == aggregated \o message

\* line 175: isOfTypeOpenAIStreamCallbacks
isOfTypeOpenAIStreamCallbacks(c) == c.fnKey # "absent"

\* the stage is constructed: TransformStream calls start(), lines 153-156
createCallbacksTransformer_start ==
  /\ ctPc = "start"
  /\ ctPc' = "transform"
  /\ ctLog' = [ctLog EXCEPT !.hooks =
       @ \o [i \in 1..Len(startHooks(callbacks)) |->
               HookCall(startHooks(callbacks)[i], Undefined)]]
  /\ UNCHANGED <<callbacks, ctAggregatedResponse, ctOut, notCtVars>>

\* transform(message, controller), lines 157-162
createCallbacksTransformer_transform(message) ==
  /\ ctPc = "transform"
  /\ Len(ctLog.units) < MaxTokens
  /\ ctOut' = Append(ctOut, message)
  /\ ctAggregatedResponse' = aggregate(ctAggregatedResponse, message)
  /\ ctLog' = [ctLog EXCEPT
       !.units = Append(@, message),
       !.hooks = IF callbacks.onToken
                 THEN Append(@, [hook |-> "onToken", arg |-> JStr(message),
                                 outLen |-> Len(ctOut) + 1])
                 ELSE @]
  /\ UNCHANGED <<callbacks, ctPc, notCtVars>>

\* flush(), lines 163-171
createCallbacksTransformer_flush ==
  /\ ctPc = "transform"
  /\ ctPc' = "closed"
  /\ ctLog' = [ctLog EXCEPT !.hooks =
       @ \o (IF callbacks.onCompletion
             THEN <<HookCall("onCompletion", JStr(ctAggregatedResponse))>> ELSE <<>>)
         \o (IF callbacks.onFinal /\ ~isOfTypeOpenAIStreamCallbacks(callbacks)
             THEN <<HookCall("onFinal", JStr(ctAggregatedResponse))>> ELSE <<>>)]
  /\ UNCHANGED <<callbacks, ctAggregatedResponse, ctOut, notCtVars>>

InitCallbacks ==
  /\ callbacks \in CallbacksConfigs
  /\ CallbacksStageNew
  /\ DecodeIdle /\ StreamDataNew /\ ReconstructorIdle /\ InterceptorIdle /\ ReaderIdle
  /\ AssistantIdle /\ ClientIdle

NextCallbacks ==
  \/ createCallbacksTransformer_start
  \/ \E message \in Tokens : createCallbacksTransformer_transform(message)
  \/ createCallbacksTransformer_flush

SpecCallbacks == InitCallbacks /\ [][NextCallbacks]_vars

(***************************************************************************)
(* react/use-completion.ts : useCompletion (complete, stop) and            *)
(* shared/call-completion-api-server.ts : callCompletionApi.  Each call *)
(* complete() runs triggerRequest; its awaits (fetch, reader.read()) are   *)
(* the points where another call or stop() can come in between.            *)
(***************************************************************************)
FailedToFetch == "Failed to fetch the chat response."
EmptyBody == "The response body is empty."

\* what fetch can resolve to: a status, the text of the body, whether there
\* is a body, the COMPLEX_HEADER, and what the body delivers
Responses ==
  { [ok |-> FALSE, text |-> "Bad", body |-> TRUE, complex |-> FALSE, chunks |-> <<>>],
    [ok |-> FALSE, text |-> "", body |-> TRUE, complex |-> FALSE, chunks |-> <<>>],
    [ok |-> TRUE, text |-> "", body |-> FALSE, complex |-> FALSE, chunks |-> <<>>],
    [ok |-> TRUE, text |-> "ab", body |-> TRUE, complex |-> FALSE,
     chunks |-> <<"a", "b">>],
    [ok |-> TRUE, text |-> "", body |-> TRUE, complex |-> TRUE,
     chunks |-> <<Part("text", JStr("a")), Part("data", JArr(<<JNum(1)>>)),
                  Part("text", JStr("b")), Part("data", JArr(<<JNum(2)>>))>>] }

\* what line 54 would be if the body text were the message as it is
errorMessage_BodyText(text) == text

\* line 54: (await res.text()) || 'Failed to fetch the chat response.'
errorMessage(text) == IF text = "" THEN FailedToFetch ELSE text

\* what use-completion.ts line 218 would be if no error were an AbortError
isAbortError_Never(err) == FALSE

\* use-completion.ts line 218: err.name === 'AbortError'
isAbortError(err) == err = "AbortError"

\* triggerRequest from the rejection of getStreamedResponse on: the catch
\* block (use-completion.ts lines 216-227) and the finally (line 229); R is
\* the request as callCompletionApi left it
triggerRequest_catch(r, R, err) ==
  IF isAbortError(err)
  THEN /\ abortCurrent' = "null"
       /\ reqs' = [reqs EXCEPT ![r] = [R EXCEPT !.pc = "settled", !.value = "null"]]
       /\ isLoading' = FALSE
       /\ UNCHANGED <<ucCompletion, ucError, streamData>>
  ELSE /\ reqs' = [reqs EXCEPT ![r] = [R EXCEPT !.pc = "settled",
                                                !.value = "undefined",
                                                !.thrown = err,
                                                !.onError = Append(@, err)]]
       /\ ucError' = err
       /\ isLoading' = FALSE
       /\ UNCHANGED <<ucCompletion, streamData, abortCurrent>>

\* complete(prompt): triggerRequest up to the await of fetch
\* (use-completion.ts lines 195-213, callCompletionApi lines 29-41)
complete(r) ==
  /\ reqs[r].pc = "idle"
  /\ isLoading' = TRUE
  /\ ucError' = "undefined"
  /\ abortCurrent' = r
  /\ reqs' = [reqs EXCEPT ![r].pc = "fetch", ![r].existingData = streamData]
  /\ UNCHANGED <<ucCompletion, streamData, notUcVars>>

\* fetch resolves with res: callCompletionApi lines 43-64, up to the first
\* reader.read()
callCompletionApi_response(r, res) ==
  /\ reqs[r].pc = "fetch"
  /\ ~reqs[r].aborted
  /\ IF ~res.ok
     THEN triggerRequest_catch(r, [reqs[r] EXCEPT !.res = res], errorMessage(res.text))
     ELSE IF ~res.body
     THEN triggerRequest_catch(r, [reqs[r] EXCEPT !.res = res], EmptyBody)
     ELSE /\ reqs' = [reqs EXCEPT ![r].pc = "read", ![r].res = res,
                                  ![r].rest = res.chunks]
          /\ UNCHANGED <<ucCompletion, isLoading, ucError, streamData, abortCurrent>>
  /\ UNCHANGED notUcVars

\* the return of callCompletionApi and the rest of triggerRequest
\* (use-completion.ts lines 215, 229): R is the request after the loop
triggerRequest_return(r, R) ==
  /\ reqs' = [reqs EXCEPT ![r] = [R EXCEPT !.pc = "settled", !.value = "undefined"]]
  /\ abortCurrent' = "null"
  /\ isLoading' = FALSE

\* reader.read() delivers a chunk: one turn of the loop of lines 67-81
\* (complex mode) or 90-106 (otherwise)
callCompletionApi_read(r) ==
  /\ reqs[r].pc = "read"
  /\ ~reqs[r].aborted
  /\ reqs[r].rest # <<>>
  /\ LET R == reqs[r]
         chunk == Head(R.rest)
     IN IF R.res.complex
        THEN \* isAborted is () => abortController === null: never true
             IF chunk.type = "text"
             THEN /\ ucCompletion' = R.result \o chunk.value[2]
                  /\ reqs' = [reqs EXCEPT ![r].rest = Tail(@),
                                ![r].result = @ \o chunk.value[2],
                                ![r].setCompletion = Append(@, R.result \o chunk.value[2])]
                  /\ UNCHANGED <<isLoading, ucError, streamData, abortCurrent>>
             ELSE /\ streamData' = R.existingData \o chunk.value[2]
                  /\ reqs' = [reqs EXCEPT ![r].rest = Tail(@),
                                ![r].onData = Append(@, chunk.value[2])]
                  /\ UNCHANGED <<ucCompletion, isLoading, ucError, abortCurrent>>
        ELSE LET streamed == R.streamedResponse \o chunk
                 result == R.result \o streamed
                 R1 == [R EXCEPT !.rest = Tail(@), !.streamedResponse = streamed,
                                 !.result = result,
                                 !.setCompletion = Append(@, result)]
             IN /\ ucCompletion' = result
                /\ IF abortCurrent = "null"
                   THEN \* lines 102-105, then lines 108-112
                        triggerRequest_return(r,
                          [R1 EXCEPT !.cancels = @ + 1, !.onFinish = Append(@, result),
                                     !.returned = <<result>>])
                   ELSE /\ reqs' = [reqs EXCEPT ![r] = R1]
                        /\ UNCHANGED <<isLoading, abortCurrent>>
                /\ UNCHANGED <<ucError, streamData>>
  /\ UNCHANGED notUcVars

\* reader.read() reports the end of the body
callCompletionApi_done(r) ==
  /\ reqs[r].pc = "read"
  /\ ~reqs[r].aborted
  /\ reqs[r].rest = <<>>
  /\ triggerRequest_return(r,
       \* the complex branch falls off the end of the function (line 113)
       IF reqs[r].res.complex THEN [reqs[r] EXCEPT !.returned = <<Undefined>>]
       ELSE [reqs[r] EXCEPT !.onFinish = Append(@, reqs[r].result),
                            !.returned = <<reqs[r].result>>])
  /\ UNCHANGED <<ucCompletion, ucError, streamData, notUcVars>>

\* stop(), use-completion.ts lines 247-252, called while a request is in
\* flight; stopCalled records the call for every such request
stop ==
  /\ \E r \in RequestIds : reqs[r].pc \in {"fetch", "read"} /\ ~reqs[r].stopCalled
  /\ reqs' = [r \in RequestIds |->
       [reqs[r] EXCEPT
          !.stopCalled = @ \/ reqs[r].pc \in {"fetch", "read"},
          !.aborted = @ \/ r = abortCurrent,
          !.stopped = IF r = abortCurrent /\ ~reqs[r].aborted THEN reqs[r].pc ELSE @]]
  /\ abortCurrent' = "null"
  /\ UNCHANGED <<ucCompletion, isLoading, ucError, streamData, notUcVars>>

\* the signal of the request's controller is aborted: the pending fetch or
\* reader.read() rejects with an AbortError
callCompletionApi_aborted(r) ==
  /\ reqs[r].pc \in {"fetch", "read"}
  /\ reqs[r].aborted
  /\ triggerRequest_catch(r, reqs[r], "AbortError")
  /\ UNCHANGED notUcVars

InitClient ==
  /\ ClientIdle
  /\ DecodeIdle /\ StreamDataNew /\ ReconstructorIdle /\ InterceptorIdle /\ ReaderIdle
  /\ AssistantIdle /\ CallbacksStageIdle

NextClient ==
  \/ \E r \in RequestIds : complete(r)
  \/ \E r \in RequestIds, res \in Responses : callCompletionApi_response(r, res)
  \/ \E r \in RequestIds : callCompletionApi_read(r)
  \/ \E r \in RequestIds : callCompletionApi_done(r)
  \/ stop
  \/ \E r \in RequestIds : callCompletionApi_aborted(r)

SpecClient == InitClient /\ [][NextClient]_vars

(***************************************************************************)
(* Claims about callCompletionApi and useCompletion                        *)
(***************************************************************************)
\* the request got a response from fetch
Responded(r) == reqs[r].res # NoResponse

\* callCompletionApi invoked none of setCompletion, onData and onFinish
NoCallbackInvoked(r) ==
  /\ reqs[r].setCompletion = <<>>
  /\ reqs[r].onData = <<>>
  /\ reqs[r].onFinish = <<>>

C25_EmptyBodyText ==
  \E r \in RequestIds :
    /\ Responded(r) /\ ~reqs[r].res.ok /\ reqs[r].res.text = ""
    /\ reqs[r].thrown = FailedToFetch

\* r is the only call of complete() so far
OnlyRequest(r) == \A q \in RequestIds \ {r} : reqs[q].pc = "idle"

\* stop() was called while the request was awaiting fetch or reader.read()
StoppedInFlight(r) == reqs[r].stopped \in {"fetch", "read"}

\* the last value the request passed to setCompletion, "" before the first
LastCompletion(r) ==
  IF reqs[r].setCompletion = <<>> THEN ""
  ELSE reqs[r].setCompletion[Len(reqs[r].setCompletion)]

InProgress(r) == reqs[r].pc \in {"fetch", "read"}

\* C27: isLoading is true exactly when some request started by complete()
\* has not yet terminated.
C27_LoadingIffInProgress ==
  isLoading <=> \E r \in RequestIds : InProgress(r)

\* one of two overlapping requests has terminated, the other has not, and
\* isLoading is false
C27_LoadingLost ==
  \E r, q \in RequestIds :
    /\ reqs[r].pc = "settled" /\ InProgress(q) /\ ~isLoading

(***************************************************************************)
(* The required shape of each code's payload, as the protocol table gives  *)
(* it.                                                                     *)
(***************************************************************************)
IsPlainObject(v) == Tag(v) = "obj"

TableToolCall(tc) ==
  /\ IsPlainObject(tc)
  /\ IsStr(Get(tc, "id"))
  /\ IsStr(Get(tc, "type"))
  /\ IsPlainObject(Get(tc, "function"))
  /\ IsStr(Get(Get(tc, "function"), "name"))
  /\ IsStr(Get(Get(tc, "function"), "arguments"))

TableShape(code, v) ==
  CASE code \in {"0", "3"} -> IsStr(v)
    [] code \in {"2", "8"} -> IsArr(v)
    [] code = "1" ->
         /\ IsPlainObject(v)
         /\ IsPlainObject(Get(v, "function_call"))
         /\ IsStr(Get(Get(v, "function_call"), "name"))
         /\ IsStr(Get(Get(v, "function_call"), "arguments"))
    [] code = "4" ->
         /\ IsPlainObject(v)
         /\ IsStr(Get(v, "id"))
         /\ Get(v, "role") = JStr("assistant")
         /\ IsArr(Get(v, "content"))
         /\ \A i \in 1..Len(Get(v, "content")[2]) :
              LET item == Get(v, "content")[2][i] IN
              /\ IsPlainObject(item)
              /\ Get(item, "type") = JStr("text")
              /\ IsPlainObject(Get(item, "text"))
              /\ IsStr(Get(Get(item, "text"), "value"))
    [] code = "5" ->
         /\ IsPlainObject(v)
         /\ IsStr(Get(v, "threadId"))
         /\ IsStr(Get(v, "messageId"))
    [] code = "6" ->
         /\ IsPlainObject(v)
         /\ Get(v, "role") = JStr("data")
         /\ HasKey(v, "data")
    [] code = "7" ->
         /\ IsPlainObject(v)
         /\ IsArr(Get(v, "tool_calls"))
         /\ \A i \in 1..Len(Get(v, "tool_calls")[2]) :
              TableToolCall(Get(v, "tool_calls")[2][i])

\* the code and the JSON payload of a line that has a separator
LineCode(l) == Sub(l, 1, IndexOfFrom(l, ":", 1) - 1)
LinePayload(l) == JSONparse(Sub(l, IndexOfFrom(l, ":", 1) + 1, Len(l)))
WellFramed(l) ==
  /\ IndexOfFrom(l, ":", 1) > 0
  /\ LineCode(l) \in validCodes
  /\ LinePayload(l).ok

(***************************************************************************)
(* C3: decode is strict for every kind: a line whose JSON payload does not *)
(* match the required shape of its code's table row fails with             *)
(* malformed-payload and yields no part (a tool_calls payload with an      *)
(* element lacking a string id, a string type, or a function object with   *)
(* string name and arguments included).                                    *)
(***************************************************************************)
C3_StrictDecode ==
  (part # Pending /\ WellFramed(line)
     /\ ~TableShape(LineCode(line), LinePayload(line).val))
    => (~part.ok /\ part.err = "shape")

\* the same statement for the eight kinds other than tool_calls
C3_StrictDecodeOtherKinds ==
  (part # Pending /\ WellFramed(line) /\ LineCode(line) # "7"
     /\ ~TableShape(LineCode(line), LinePayload(line).val))
    => (~part.ok /\ part.err = "shape")

\* a payload of the right shape is accepted
C3_AcceptsTableShape ==
  (part # Pending /\ WellFramed(line)
     /\ TableShape(LineCode(line), LinePayload(line).val))
    => part.ok

(***************************************************************************)
(* The side-channel multiplexer's output, as the specification describes   *)
(* it, computed from the history of appends and content units.             *)
(***************************************************************************)
BatchPart(kind, items) == IF items = <<>> THEN <<>> ELSE <<Part(kind, JArr(items))>>

\* the parts owed for the content units of h from event i on, pd and pa
\* being the data items and annotations appended since the previous flush
RECURSIVE UnitParts(_, _, _, _)
UnitParts(h, i, pd, pa) ==
  IF i > Len(h) THEN <<>>
  ELSE CASE h[i][1] = "data" -> UnitParts(h, i + 1, Append(pd, h[i][2]), pa)
         [] h[i][1] = "ann" -> UnitParts(h, i + 1, pd, Append(pa, h[i][2]))
         [] h[i][1] = "close" -> UnitParts(h, i + 1, pd, pa)
         [] h[i][1] = "unit" ->
              BatchPart("data", pd) \o BatchPart("message_annotations", pa)
                \o <<Part("text", h[i][2])>> \o UnitParts(h, i + 1, <<>>, <<>>)

LastUnit(h) ==
  IF \E i \in 1..Len(h) : h[i][1] = "unit"
  THEN CHOOSE i \in 1..Len(h) : h[i][1] = "unit" /\ \A j \in (i+1)..Len(h) : h[j][1] # "unit"
  ELSE 0

\* the values of the events of the given kind after the last content unit
RECURSIVE EventsAfter(_, _, _)
EventsAfter(h, i, kind) ==
  IF i > Len(h) THEN <<>>
  ELSE (IF h[i][1] = kind THEN <<h[i][2]>> ELSE <<>>) \o EventsAfter(h, i + 1, kind)

StillPending(kind) == EventsAfter(hist, LastUnit(hist) + 1, kind)

DecodedOut == [i \in 1..Len(sdOut) |-> parseStreamPart(sdOut[i])]

CloseCalled == \E i \in 1..Len(hist) : hist[i][1] = "close"

(***************************************************************************)
(* C8: whenever the multiplexed output stream has ended normally, close()  *)
(* has been called on the buffer: the terminal flush never completes while *)
(* the buffer is still open.                                               *)
(***************************************************************************)
C8_EndOnlyAfterClose == sdPc = "done" => (CloseCalled /\ isClosed)

\* close() has been called and the stream has ended, with output emitted
C8_Witness ==
  /\ sdPc = "done"
  /\ CloseCalled
  /\ Len(sdOut) > 0

(***************************************************************************)
(* C9: once the upstream has ended and close() has been called, in either  *)
(* order, the multiplexed stream eventually ends; what it emits after the  *)
(* last content unit is at most one data part holding all still-pending    *)
(* data items, followed by at most one message_annotations part holding    *)
(* all still-pending annotations.                                          *)
(***************************************************************************)
C9_FinalFlushShape ==
  sdPc = "done" =>
    DecodedOut = UnitParts(hist, 1, <<>>, <<>>)
                   \o BatchPart("data", StillPending("data"))
                   \o BatchPart("message_annotations", StillPending("ann"))

C9_FinalFlush ==
  /\ [](C9_FinalFlushShape)
  /\ ((sdPc # "open" /\ isClosed) ~> (sdPc = "done"))

\* the stream has ended with a final flush of both a data and an annotation batch
C9_Witness ==
  /\ sdPc = "done"
  /\ Len(StillPending("data")) >= 2
  /\ Len(StillPending("ann")) >= 1
  /\ LastUnit(hist) > 0

(***************************************************************************)
(* C10: for every content unit, the data items appended since the previous *)
(* flush are emitted as one data part, then the annotations appended since *)
(* the previous flush as one message_annotations part, and only then the   *)
(* content unit; inside each part the items are in append order.           *)
(***************************************************************************)
C10_BatchesPrecedeUnit ==
  LET owed == UnitParts(hist, 1, <<>>, <<>>) IN
  /\ Len(sdOut) >= Len(owed)
  /\ \A i \in 1..Len(owed) : DecodedOut[i] = owed[i]

\* data appended twice, an annotation, then a content unit: three parts
C10_Witness ==
  /\ Len(hist) >= 4
  /\ hist[1][1] = "data" /\ hist[2][1] = "data" /\ hist[1] # hist[2]
  /\ hist[3][1] = "ann" /\ hist[4][1] = "unit"
  /\ Len(sdOut) >= 3
  /\ DecodedOut[1] = Part("data", JArr(<<hist[1][2], hist[2][2]>>))
  /\ DecodedOut[3].type = "text"

(***************************************************************************)
(* C2: after every decoded part the sink receives the list of all the      *)
(* accumulators that currently exist, in the order function_call,          *)
(* tool_calls, text, with a copy of the current data channel; after the    *)
(* parts function_call, text the snapshot of the text part holds both the  *)
(* function_call message and the text message.                             *)
(***************************************************************************)
PresentKinds ==
  (IF Exists(prefixMap.function_call) THEN <<"function_call">> ELSE <<>>)
  \o (IF Exists(prefixMap.tool_calls) THEN <<"tool_calls">> ELSE <<>>)
  \o (IF Exists(prefixMap.text) THEN <<"text">> ELSE <<>>)

LastUpdate == updates[Len(updates)]

C2_SnapshotHasAllAccumulators ==
  (pcrPc = "reading" /\ Len(updates) > 0) =>
    /\ [i \in 1..Len(LastUpdate.messages) |-> LastUpdate.messages[i].kind] = PresentKinds
    /\ LastUpdate.data = prefixMap.data

\* what does hold: the snapshot lists, in that order, the accumulators of
\* the part just processed and the text accumulator
C2_SnapshotOrdered ==
  (pcrPc = "reading" /\ Len(updates) > 0) =>
    /\ \A i \in 1..Len(LastUpdate.messages) :
         LastUpdate.messages[i] = prefixMap[LastUpdate.messages[i].kind]
    /\ LastUpdate.data = prefixMap.data



(***************************************************************************)
(* Claims about the function/tool-call interceptor.                        *)
(***************************************************************************)
IsOpening(message) ==
  StartsWith(message, FunctionCallOpening) \/ StartsWith(message, ToolCallsOpening)

\* the pipeline of the caller has ended (closed or errored) and no nested
\* pipeline is left
RunOver == Len(levels) = 1 /\ levels[1].pc \in {"closed", "errored"}

\* the forwarded chunks as the reader sees them: decoded parts when
\* multiplexing, the chunks themselves otherwise
RECURSIVE ForwardedFrom(_)
ForwardedFrom(i) ==
  IF i > Len(fnOut) THEN ""
  ELSE LET p == parseStreamPart(fnOut[i])
           chunk == CASE ~cb.complex -> fnOut[i]
                      [] p.type = "text" -> p.value[2]
                      [] OTHER -> JSONstringify(p.value)
       IN chunk \o ForwardedFrom(i + 1)

(***************************************************************************)
(* C1: a pipeline whose first unit did not open a call payload             *)
(* (PASSTHROUGH) never captures: it buffers nothing, whatever the later    *)
(* units begin with.                                                       *)
(***************************************************************************)
C1_PassthroughNeverCaptures ==
  \A i \in 1..Len(levels) :
    (Len(levels[i].seen) > 0 /\ ~IsOpening(levels[i].seen[1]))
      => (~levels[i].isFunctionStreamingIn /\ levels[i].aggregatedResponse = "")

(***************************************************************************)
(* C4 as stated: with no function-call callback configured (multiplexing   *)
(* enabled), the units '{"function_call":' and the rest of the payload    *)
(* leave the pipeline as exactly one function_call part whose value is the *)
(* JSON of the buffered text.                                              *)
(***************************************************************************)
SplitCallRun ==
  /\ RunOver
  /\ levels[1].seen = <<FunctionCallOpening, FunctionCallRest>>

OneFunctionCallPart ==
  /\ levels[1].pc = "closed"
  /\ Len(fnOut) = 1
  /\ parseStreamPart(fnOut[1]).ok
  /\ parseStreamPart(fnOut[1]).type = "function_call"
  /\ parseStreamPart(fnOut[1]).value
       = JSONparse(FunctionCallOpening \o FunctionCallRest).val

C4_NoCallbackForwardsCall ==
  (SplitCallRun /\ cb.complex /\ cb.fnKey # "set") => OneFunctionCallPart

(***************************************************************************)
(* C4, amended: with multiplexing enabled, the two units leave as exactly  *)
(* one function_call part equal to the buffered JSON when a function-call  *)
(* callback is configured (and no tool-call callback) and returns nothing; *)
(* with neither callback configured the units are not buffered: each is    *)
(* forwarded as a text part of its own.                                    *)
(***************************************************************************)
C4_CallbackReturningNothingForwardsCall ==
  /\ (/\ SplitCallRun /\ cb.complex /\ cb.fnKey = "set" /\ ~cb.tool
      /\ Len(calls) = 1 /\ calls[1].fn = "nothing")
       => OneFunctionCallPart
  /\ (SplitCallRun /\ cb.complex /\ cb.fnKey # "set" /\ ~cb.tool)
       => /\ levels[1].pc = "closed"
          /\ fnOut = <<"0:\"{\\\"function_call\\\":\"\n",
                       "0:\"{\\\"name\\\":\\\"f\\\",\\\"arguments\\\":\\\"{}\\\"}}\"\n">>

\* the split payload went through a pipeline whose function-call callback
\* returned nothing, and through one with no callback
C4_Witness ==
  /\ SplitCallRun /\ cb.complex /\ cb.fnKey = "set" /\ ~cb.tool
  /\ Len(calls) = 1 /\ calls[1].fn = "nothing"
  /\ Len(fnOut) = 1

(***************************************************************************)
(* C5: when the one configured callback throws or returns nothing at the   *)
(* end of a captured stream, the buffered payload is forwarded as exactly  *)
(* one chunk (a function_call/tool_calls part when multiplexing) and the   *)
(* flush returns normally.                                                 *)
(***************************************************************************)
CallbackOutcome(c) ==
  CASE cb.fnKey = "set" /\ ~cb.tool -> c.fn
    [] cb.fnKey # "set" /\ cb.tool -> c.tool
    [] OTHER -> "both"

C5_CallbackFailureForwardsPayload ==
  \A i \in 1..Len(calls) :
    CallbackOutcome(calls[i]) \in {"throw", "nothing"}
      => /\ calls[i].result = "done"
         /\ Len(fnOut) > calls[i].outLen
         /\ LET chunk == fnOut[calls[i].outLen + 1] IN
            IF cb.complex
            THEN /\ parseStreamPart(chunk).ok
                 /\ parseStreamPart(chunk).type \in {"function_call", "tool_calls"}
                 /\ parseStreamPart(chunk).value = JSONparse(calls[i].payload).val
            ELSE chunk = calls[i].payload

(***************************************************************************)
(* C6: when a run of the interceptor pipeline with onFinal configured has  *)
(* ended normally, onFinal has been called exactly once, and after the     *)
(* last chunk was forwarded.                                               *)
(***************************************************************************)
C6_FinalFiresOnceAtEnd ==
  (RunOver /\ levels[1].pc = "closed" /\ interceptorInstalled(cb) /\ cb.final)
    => (Len(finalCalls) = 1 /\ finalCalls[1].outLen = Len(fnOut))

(***************************************************************************)
(* C7: the argument of every onFinal call of a finished run of the         *)
(* interceptor pipeline is the concatenation of the forwarded chunks.      *)
(***************************************************************************)
C7_FinalArgumentIsForwardedText ==
  (RunOver /\ levels[1].pc = "closed" /\ interceptorInstalled(cb))
    => \A i \in 1..Len(finalCalls) : finalCalls[i].completion = ForwardedFrom(1)

(***************************************************************************)
(* C11: close() on a closed buffer fails, append and                       *)
(* appendMessageAnnotation after close fail, and a failing call changes    *)
(* neither queue nor the closed flag: a call throws only on a closed       *)
(* buffer, the last call succeeded as an append only if the buffer is      *)
(* still open, close succeeded at most once and nothing was queued after   *)
(* it, and each queue holds exactly what was appended successfully since   *)
(* the last content unit.                                                  *)
(***************************************************************************)
CloseEvents == {i \in 1..Len(hist) : hist[i][1] = "close"}

C11_MisuseFailsCleanly ==
  /\ lastCall.threw => isClosed
  /\ (lastCall.op \in {"append", "appendMessageAnnotation"} /\ ~lastCall.threw)
       => ~isClosed
  /\ isClosed <=> (Cardinality(CloseEvents) = 1)
  /\ Cardinality(CloseEvents) <= 1
  /\ \A i \in CloseEvents : \A j \in (i + 1)..Len(hist) : hist[j][1] = "unit"
  /\ data = StillPending("data")
  /\ messageAnnotations = StillPending("ann")

\* an append has failed on a closed buffer that still holds pending items
C11_Witness ==
  /\ lastCall = [op |-> "append", threw |-> TRUE]
  /\ isClosed
  /\ data # <<>>
  /\ messageAnnotations # <<>>

(***************************************************************************)
(* C12: for each of the nine kinds and every payload matching the kind's   *)
(* table row, decoding the encoded line returns a part of that kind whose  *)
(* value is the payload; for assistant_control_data, the payload reduced   *)
(* to its threadId and messageId.                                          *)
(***************************************************************************)
CodeOfType(type) ==
  streamParts[CHOOSE i \in 1..Len(streamParts) : streamParts[i][2] = type][1]

Normalized(type, v) ==
  IF type = "assistant_control_data"
  THEN JObj(<< <<"threadId", Get(v, "threadId")>>,
               <<"messageId", Get(v, "messageId")>> >>)
  ELSE v

C12_RoundTrip ==
  (part # Pending /\ encoded # NotEncoded
     /\ TableShape(CodeOfType(encoded.type), encoded.value))
    => /\ part.ok
       /\ part.type = encoded.type
       /\ part.value = Normalized(encoded.type, encoded.value)

\* a control-data payload with an extra member has gone through encode and
\* decode, and came back without it
C12_Witness ==
  /\ part # Pending /\ part.ok
  /\ encoded.type = "assistant_control_data"
  /\ HasKey(encoded.value, "extra")
  /\ part.value # encoded.value

(***************************************************************************)
(* C13: whatever the chunk boundaries, the parts yielded from a source of  *)
(* validly encoded lines are the parts of the lines, each once and in line *)
(* order: no read fails, what has been yielded is always a prefix of them, *)
(* and at end-of-input all of them have been yielded.                      *)
(***************************************************************************)
WrittenPart(l) ==
  LET p == CHOOSE q \in ReadParts : formatStreamPart(q.type, q.value) = l
  IN Part(p.type, p.value)

AllLinesValid == \A i \in 1..Len(rdLines) : rdLines[i] # BadLine

C13_ChunkBoundariesIrrelevant ==
  AllLinesValid =>
    /\ rdPc # "failed"
    /\ Len(rdOut) <= Len(rdLines)
    /\ \A i \in 1..Len(rdOut) : rdOut[i] = WrittenPart(rdLines[i])
    /\ (rdPc = "done" /\ rdLog.cancels = <<>>) => Len(rdOut) = Len(rdLines)

\* two lines came in chunks cut inside the lines and not at the first line
\* feed, and both parts were yielded, from one batch
C13_Witness ==
  /\ rdPc = "done" /\ rdLog.cancels = <<>>
  /\ Len(rdLines) = 2 /\ AllLinesValid
  /\ rdOut = <<WrittenPart(rdLines[1]), WrittenPart(rdLines[2])>>
  /\ rdLog.batches = 1
  /\ rdLog.reads >= 4

(***************************************************************************)
(* C18: the abort predicate is consulted once after each batch, when all   *)
(* the parts of the batch have been yielded, and never inside a batch;     *)
(* when it returns true the reader is canceled, once, and nothing happens  *)
(* after that: no read, no part, no further check.                         *)
(***************************************************************************)
C18_AbortCheckedAfterEachBatch ==
  LET n == Len(rdLog.checks) IN
  /\ n = (IF rdPc \in {"yield", "check", "failed"}
          THEN rdLog.batches - 1 ELSE rdLog.batches)
  /\ \A i \in 1..(n - 1) : ~rdLog.checks[i].aborted
  /\ IF n > 0 /\ rdLog.checks[n].aborted
     THEN /\ rdPc = "done"
          /\ rdBatch = <<>>
          /\ rdLog.cancels = <<[reads |-> rdLog.reads, yielded |-> Len(rdOut)]>>
     ELSE rdLog.cancels = <<>>

\* the reader was canceled after a batch while the source had more to give
C18_Witness ==
  /\ rdLog.cancels # <<>>
  /\ rdRest # ""
  /\ Len(rdOut) >= 1
  /\ rdLog.reads >= 2

(***************************************************************************)
(* Claims about one reconstruction pass (parseComplexResponse).            *)
(***************************************************************************)
MessageKinds == {"text", "function_call", "tool_calls"}

\* the messages of the given kind in a snapshot
OfKind(messages, kind) ==
  {messages[i] : i \in {j \in 1..Len(messages) : messages[j].kind = kind}}

(***************************************************************************)
(* C14: the id of an accumulator kind is the same in every snapshot that   *)
(* shows the kind and in the accumulator itself (what the final result     *)
(* returns): it never changes once assigned.  (createdAt is one value for  *)
(* the whole pass, line 1311, and is not in the model.)                    *)
(***************************************************************************)
C14_IdsFixedAtCreation ==
  \A kind \in MessageKinds :
    \A i \in 1..Len(updates) :
      \A m \in OfKind(updates[i].messages, kind) :
        /\ Exists(prefixMap[kind]) /\ prefixMap[kind].id = m.id
        /\ \A j \in i..Len(updates) :
             \A n \in OfKind(updates[j].messages, kind) : n.id = m.id

(***************************************************************************)
(* C15: once a message_annotations part has arrived, every accumulator     *)
(* present, and every message of the snapshot emitted for each part,       *)
(* carries the items of all message_annotations parts received so far, in  *)
(* arrival order (no annotations member standing for the empty list), and  *)
(* the text content is the concatenation of the text parts.                *)
(***************************************************************************)
RECURSIVE ItemsOf(_, _, _)
ItemsOf(parts, type, i) ==
  IF i > Len(parts) THEN <<>>
  ELSE (IF parts[i].type = type THEN parts[i].value[2] ELSE <<>>)
       \o ItemsOf(parts, type, i + 1)

RECURSIVE TextOf(_, _)
TextOf(parts, i) ==
  IF i > Len(parts) THEN ""
  ELSE (IF parts[i].type = "text" THEN parts[i].value[2] ELSE "")
       \o TextOf(parts, i + 1)

Carried(m) == IF m.annotations = Undefined THEN <<>> ELSE m.annotations

AnnotationsArrived == \E i \in 1..Len(received) : received[i].type = "message_annotations"

C15_AnnotationsStamped ==
  AnnotationsArrived =>
    LET all == ItemsOf(received, "message_annotations", 1) IN
    /\ \A kind \in MessageKinds :
         Exists(prefixMap[kind]) => Carried(prefixMap[kind]) = all
    /\ \A i \in 1..Len(LastUpdate.messages) : Carried(LastUpdate.messages[i]) = all
    /\ Exists(prefixMap.text) => prefixMap.text.content = TextOf(received, 1)

\* text, then annotations [A], then annotations [B]: the text message of the
\* last snapshot carries [A, B]
C15_Witness ==
  /\ Len(received) = 3
  /\ received[1].type = "text"
  /\ received[2] = Part("message_annotations", JArr(<<JStr("A")>>))
  /\ received[3] = Part("message_annotations", JArr(<<JStr("B")>>))
  /\ LastUpdate.messages[1].annotations = <<JStr("A"), JStr("B")>>
  /\ prefixMap.text.annotations = <<JStr("A"), JStr("B")>>

(***************************************************************************)
(* C16: when every line the pass is given was encoded from a text unit or  *)
(* a data batch, the parts it decodes are the encoded ones, the text       *)
(* message's content is the concatenation of the text units, and the data  *)
(* channel is the concatenation of the batches, in the accumulators and in *)
(* the result returned.                                                    *)
(***************************************************************************)
ProducerParts ==
  { [type |-> "text", value |-> JStr("Hi")],
    [type |-> "text", value |-> JStr(" there")],
    [type |-> "data", value |-> JArr(<<JObj(<< <<"a", JNum(1)>> >>)>>)],
    [type |-> "data", value |-> JArr(<<JNum(2), JNum(3)>>)] }

\* what the producer writes for each of its parts
ProducerLine == [q \in ProducerParts |-> formatStreamPart(q.type, q.value)]

FromProducer(l) == \E q \in ProducerParts : ProducerLine[q] = l

Sent ==
  [i \in 1..Len(written) |->
     LET q == CHOOSE q \in ProducerParts : ProducerLine[q] = written[i]
     IN Part(q.type, q.value)]

C16_EndToEnd ==
  (\A i \in 1..Len(written) : FromProducer(written[i])) =>
    /\ pcrPc # "failed"
    /\ received \o pending = Sent
    /\ prefixMap.data = ItemsOf(received, "data", 1)
    /\ Exists(prefixMap.text) <=> (\E i \in 1..Len(received) : received[i].type = "text")
    /\ Exists(prefixMap.text) => prefixMap.text.content = TextOf(received, 1)
    /\ pcrPc = "finished" =>
         /\ received = Sent
         /\ outcome.result[1].data = ItemsOf(Sent, "data", 1)
         /\ Len(outcome.result[1].messages) = (IF Exists(prefixMap.text) THEN 1 ELSE 0)
         /\ \A i \in 1..Len(outcome.result[1].messages) :
              /\ outcome.result[1].messages[i].kind = "text"
              /\ outcome.result[1].messages[i].content = TextOf(Sent, 1)

\* text "Hi", data [{a:1}], text " there" were encoded, decoded and
\* reconstructed: content "Hi there", data [{a:1}]
C16_Witness ==
  /\ pcrPc = "finished"
  /\ written = << formatStreamPart("text", JStr("Hi")),
                  formatStreamPart("data", JArr(<<JObj(<< <<"a", JNum(1)>> >>)>>)),
                  formatStreamPart("text", JStr(" there")) >>
  /\ outcome.result[1].messages[1].content = "Hi there"
  /\ outcome.result[1].data = <<JObj(<< <<"a", JNum(1)>> >>)>>

(***************************************************************************)
(* C17: a line that does not decode makes the pass fail when its batch is  *)
(* decoded: the error leaves the pass, no snapshot is delivered for any    *)
(* line of that batch or after it, onFinish is not called and nothing is   *)
(* returned; and the pass fails only so.                                   *)
(***************************************************************************)
C17_DecodeFailureAborts ==
  /\ (\E i \in 1..Len(written) : ~streamPartOf[written[i]].ok) <=> (pcrPc = "failed")
  /\ pcrPc = "failed" =>
       /\ outcome.error \in {"no-separator", "invalid-code", "json", "shape"}
       /\ outcome.finishCalls = <<>>
       /\ outcome.result = <<>>
       /\ pending = <<>>
       /\ Len(written) > Len(received)
       /\ Len(updates) = Len(received)
       /\ \A i \in 1..Len(received) : streamPartOf[written[i]] = received[i]

\* one part was delivered, then a batch of a good line and a line with a
\* payload of the wrong shape failed
C17_Witness ==
  /\ pcrPc = "failed"
  /\ outcome.error = "shape"
  /\ Len(updates) = 1
  /\ Len(written) = 3
  /\ streamPartOf[written[2]].ok

(***************************************************************************)
(* C19: a pass stopped by a null abort reference ends without an error:    *)
(* every part read has been processed and its snapshot delivered, nothing  *)
(* is read after the stop, onFinish is called once with the accumulators,  *)
(* and the messages and data returned are the accumulated ones.            *)
(***************************************************************************)
C19_CancelKeepsAccumulated ==
  outcome.canceled =>
    /\ pcrPc \in {"canceled", "finished"}
    /\ abortControllerRef = "null"
    /\ outcome.error = "none"
    /\ Len(written) = Len(received) /\ Len(updates) = Len(received)
    /\ prefixMap.data = ItemsOf(received, "data", 1)
    /\ Exists(prefixMap.text) => prefixMap.text.content = TextOf(received, 1)
    /\ pcrPc = "finished" =>
         /\ outcome.finishCalls = <<prefixMap>>
         /\ Len(outcome.result) = 1
         /\ outcome.result[1].data = prefixMap.data
         /\ [i \in 1..Len(outcome.result[1].messages) |->
               outcome.result[1].messages[i].kind]
              = (IF Exists(prefixMap.text) THEN <<"text">> ELSE <<>>)
                \o (IF Exists(prefixMap.function_call) THEN <<"function_call">> ELSE <<>>)
                \o (IF Exists(prefixMap.tool_calls) THEN <<"tool_calls">> ELSE <<>>)
         /\ \A i \in 1..Len(outcome.result[1].messages) :
              outcome.result[1].messages[i]
                = prefixMap[outcome.result[1].messages[i].kind]

\* a pass that had accumulated text and data was stopped and has returned
C19_Witness ==
  /\ outcome.canceled /\ pcrPc = "finished"
  /\ Len(received) = 2
  /\ Exists(prefixMap.text) /\ prefixMap.data # <<>>
  /\ Len(outcome.result[1].messages) = 1

(***************************************************************************)
(* C20: the response's stream carries one assistant_control_data part with *)
(* the ids, enqueued before process2 is invoked; then the parts process2   *)
(* sent, in send order; then one error part if and only if process2 threw; *)
(* and once process2 has settled controller.close() has been called        *)
(* exactly once.                                                           *)
(***************************************************************************)
Settled == arPc \in {"closed", "errored"}

SentLines ==
  [i \in 1..Len(arLog.sends) |->
     formatStreamPart(arLog.sends[i].type, arLog.sends[i].value)]

C20_ControlThenSendsThenError ==
  arPc # "new" =>
    /\ arLog.invokedAt = 1
    /\ parseStreamPart(arOut[1]) = Part("assistant_control_data", arIds)
    /\ SubSeq(arOut, 2, 1 + Len(SentLines)) = SentLines
    /\ ~Settled => Len(arOut) = 1 + Len(SentLines) /\ arLog.closes = 0
    /\ Settled =>
         /\ arLog.closes = 1
         /\ Len(arOut) = 1 + Len(SentLines) + (IF arLog.thrown # <<>> THEN 1 ELSE 0)
         /\ arLog.thrown # <<>> =>
              parseStreamPart(arOut[Len(arOut)]).type = "error"

\* process2 threw undefined after one send: the stream was closed without
\* an error part
C20_ThrowWithoutErrorPart ==
  /\ Settled
  /\ arLog.thrown = <<Undefined>>
  /\ Len(arLog.sends) = 1
  /\ arLog.closes = 1
  /\ Len(arOut) = 2

(***************************************************************************)
(* C21: in a pipeline with the interceptor, before the end of the stream:  *)
(* if the first unit opened a function_call or tool_calls payload, nothing *)
(* has been forwarded and every unit is in the buffer, in arrival order;   *)
(* otherwise the first unit was forwarded, as a text part when             *)
(* multiplexing and as it came otherwise.                                  *)
(***************************************************************************)
\* how many chunks had been forwarded when the innermost pipeline started
OutAtStart == IF Len(levels) = 1 THEN 0 ELSE calls[Len(calls)].outLen

C21_FirstUnitDecides ==
  (interceptorInstalled(cb) /\ Top.pc = "transform" /\ Len(Top.seen) > 0) =>
    IF IsOpening(Top.seen[1])
    THEN /\ Len(fnOut) = OutAtStart
         /\ Top.isFunctionStreamingIn
         /\ Top.aggregatedResponse = Concat(Top.seen, 1)
    ELSE /\ Len(fnOut) > OutAtStart
         /\ IF cb.complex
            THEN parseStreamPart(fnOut[OutAtStart + 1])
                   = Part("text", JStr(Top.seen[1]))
            ELSE fnOut[OutAtStart + 1] = Top.seen[1]

\* three units were buffered after an opening first unit, none forwarded
C21_Witness ==
  /\ interceptorInstalled(cb) /\ Top.pc = "transform"
  /\ Len(levels) = 1
  /\ Len(Top.seen) = 3 /\ IsOpening(Top.seen[1]) /\ Top.seen[2] = "Hi"
  /\ fnOut = <<>>

\* a first unit that opens nothing was forwarded as a text part
C21_WitnessForward ==
  /\ interceptorInstalled(cb) /\ Top.pc = "transform" /\ cb.complex
  /\ Top.seen = <<"Hi">>
  /\ fnOut = <<"0:\"Hi\"\n">>

(***************************************************************************)
(* C22: when the one configured callback returns a string at the end of a  *)
(* captured stream, the flush forwards exactly one chunk, carrying that    *)
(* string (a text part when multiplexing), the buffered payload is not     *)
(* forwarded, and no continuation starts.                                  *)
(***************************************************************************)
ReturnsString(c) == CallbackOutcome(c) \in {"string", "empty"}

CarriesString(chunk, str) ==
  IF cb.complex
  THEN parseStreamPart(chunk) = Part("text", JStr(str))
  ELSE chunk = str

C22_StringIsForwarded ==
  \A i \in 1..Len(calls) :
    ReturnsString(calls[i]) =>
      /\ calls[i].result = "done"
      /\ i = Len(calls)
      /\ Len(fnOut) = calls[i].outLen + 1
      /\ CarriesString(fnOut[Len(fnOut)], ReturnedString(CallbackOutcome(calls[i])))

\* C22 for the strings that are not empty
C22_NonEmptyStringIsForwarded ==
  \A i \in 1..Len(calls) :
    CallbackOutcome(calls[i]) = "string" =>
      /\ calls[i].result = "done"
      /\ i = Len(calls)
      /\ Len(fnOut) = calls[i].outLen + 1
      /\ CarriesString(fnOut[Len(fnOut)], "OK")

\* the callback returned the empty string and the payload was forwarded
C22_EmptyStringForwardsPayload ==
  /\ Len(calls) = 1 /\ CallbackOutcome(calls[1]) = "empty"
  /\ ~cb.complex
  /\ fnOut = <<calls[1].payload>>

(***************************************************************************)
(* C23: the callbacks stage forwards each unit unchanged and calls onToken *)
(* once per unit in arrival order; when the source ends it calls           *)
(* onCompletion once with the concatenation of all units, after the last   *)
(* onToken, and then, unless suppressed, onFinal with the same aggregate.  *)
(***************************************************************************)
HooksNamed(h) == SelectSeq(ctLog.hooks, LAMBDA e : e.hook = h)

HookNames == [i \in 1..Len(ctLog.hooks) |-> ctLog.hooks[i].hook]

C23_HooksInOrder ==
  /\ ctOut = ctLog.units
  /\ callbacks.onToken =>
       /\ Len(HooksNamed("onToken")) = Len(ctLog.units)
       /\ \A i \in 1..Len(ctLog.units) :
            /\ HooksNamed("onToken")[i].arg = JStr(ctLog.units[i])
            /\ HooksNamed("onToken")[i].outLen = i
  /\ ~callbacks.onToken => HooksNamed("onToken") = <<>>
  /\ ctPc # "closed" => HooksNamed("onCompletion") = <<>> /\ HooksNamed("onFinal") = <<>>
  /\ ctPc = "closed" =>
       /\ HookNames
            = (IF callbacks.onStart THEN <<"onStart">> ELSE <<>>)
              \o (IF callbacks.onToken
                  THEN [i \in 1..Len(ctLog.units) |-> "onToken"] ELSE <<>>)
              \o (IF callbacks.onCompletion THEN <<"onCompletion">> ELSE <<>>)
              \o (IF callbacks.onFinal /\ callbacks.fnKey = "absent"
                  THEN <<"onFinal">> ELSE <<>>)
       /\ \A i \in 1..Len(ctLog.hooks) :
            ctLog.hooks[i].hook \in {"onCompletion", "onFinal"} =>
              /\ ctLog.hooks[i].arg = JStr(Concat(ctLog.units, 1))
              /\ ctLog.hooks[i].outLen = Len(ctLog.units)

\* two units went through a stage with all hooks: the aggregate is "Hi there"
C23_Witness ==
  /\ ctPc = "closed"
  /\ ctLog.units = <<"Hi", " there">>
  /\ HookNames = <<"onStart", "onToken", "onToken", "onCompletion", "onFinal">>
  /\ ctLog.hooks[4].arg = JStr("Hi there") /\ ctLog.hooks[5].arg = JStr("Hi there")

(***************************************************************************)
(* C24 as stated: onStart is called once, before the onToken of the first  *)
(* unit, and only once a first unit has arrived.                           *)
(***************************************************************************)
C24_StartOnFirstUnit ==
  /\ Len(HooksNamed("onStart")) <= 1
  /\ HooksNamed("onStart") # <<>> =>
       /\ Len(ctLog.units) >= 1
       /\ ctLog.hooks[1].hook = "onStart"

(***************************************************************************)
(* C24, amended: onStart, when configured, is called exactly once, when    *)
(* the stage is constructed: before any unit is taken and before every     *)
(* other hook, whether or not a unit ever arrives.                         *)
(***************************************************************************)
C24_StartAtConstruction ==
  /\ Len(HooksNamed("onStart")) = (IF callbacks.onStart /\ ctPc # "start" THEN 1 ELSE 0)
  /\ HooksNamed("onStart") # <<>> =>
       /\ ctLog.hooks[1] = [hook |-> "onStart", arg |-> Undefined, outLen |-> 0]
  /\ ctPc = "start" => ctLog.units = <<>> /\ ctLog.hooks = <<>>

\* the source ended without a unit and onStart had been called
C24_Witness ==
  /\ ctPc = "closed"
  /\ ctLog.units = <<>>
  /\ callbacks.onStart
  /\ HooksNamed("onStart") # <<>>

(***************************************************************************)
(* C30: with onFinal configured, the callbacks stage of a pipeline leaves  *)
(* the call of onFinal out only if the interceptor is installed behind it: *)
(* a run without the interceptor that ended normally has called onFinal    *)
(* once, and a run with it never gets a second call from the stage.        *)
(***************************************************************************)
C30_FinalSuppressedOnlyForInterceptor ==
  (RunOver /\ levels[1].pc = "closed" /\ cb.final) =>
    IF interceptorInstalled(cb)
    THEN Len(finalCalls) <= 1
    ELSE /\ Len(finalCalls) = 1
         /\ finalCalls[1].completion = Concat(levels[1].seen, 1)

\* the key experimental_onFunctionCall is present with no value: a run that
\* forwarded a unit has ended and onFinal was never called
C30_FinalLost ==
  /\ RunOver /\ levels[1].pc = "closed" /\ cb.final
  /\ cb.fnKey = "novalue" /\ ~cb.tool
  /\ levels[1].seen = <<"Hi">>
  /\ Len(fnOut) = 1
  /\ finalCalls = <<>>

(***************************************************************************)
(* C28: decoding fails, and yields no part, for every line whose prefix    *)
(* before the first ":" is not one of the nine codes "0" .. "8" and for    *)
(* every line that has no ":".                                             *)
(***************************************************************************)
KnownCodes == {"0", "1", "2", "3", "4", "5", "6", "7", "8"}

NoColon(l) == \A i \in 1..Len(l) : Ch(l, i) # ":"

\* the text before the first ":" is one of the nine codes
HasKnownCode(l) == \E c \in KnownCodes : StartsWith(l, c \o ":")

Decoded == part # Pending

C28_UnknownCodeOrNoColonFails ==
  (Decoded /\ (NoColon(line) \/ ~HasKnownCode(line))) =>
     /\ ~part.ok
     /\ part.type = "none" /\ part.value = Undefined
     /\ part.err = IF NoColon(line) THEN "no-separator" ELSE "invalid-code"

\* the line 9:"x" has been decoded
C28_Witness == Decoded /\ line = "9:\"x\"" /\ part = PartError("invalid-code")

\* a line without ":" has been decoded
C28_WitnessNoColon == Decoded /\ line = "abc" /\ part = PartError("no-separator")

(***************************************************************************)
(* C29: a content unit that arrives while neither the data queue nor the   *)
(* annotation queue has a pending item makes the multiplexer emit that     *)
(* content unit and nothing else, and leaves both queues as they are.      *)
(***************************************************************************)
\* this step is the arrival of a content unit
UnitArrives == \E t \in ContentTexts : hist' = Append(hist, <<"unit", JStr(t)>>)

C29_NothingPendingNothingAdded ==
  [][(UnitArrives /\ data = <<>> /\ messageAnnotations = <<>>) =>
       /\ sdOut' = Append(sdOut, formatStreamPart("text", hist'[Len(hist')][2]))
       /\ data' = data
       /\ messageAnnotations' = messageAnnotations]_vars

\* two content units in a row with nothing appended: two parts in the output
C29_Witness ==
  /\ Len(hist) = 2
  /\ hist[1][1] = "unit" /\ hist[2][1] = "unit"
  /\ data = <<>> /\ messageAnnotations = <<>>
  /\ sdOut = <<formatStreamPart("text", hist[1][2]), formatStreamPart("text", hist[2][2])>>

(***************************************************************************)
(* C31: while a continuation runs, the output of the interceptor is what   *)
(* the innermost continuation pipeline produces, in the order it produces  *)
(* it, each forwarded text encoded as a part once; the pipelines above it  *)
(* wait in their read loop, neither taking a unit nor emitting, and a      *)
(* pipeline ends only after the continuation under it has ended.           *)
(***************************************************************************)
InContinuation == Len(levels) > 1

\* the pipelines above the innermost one
Parents == SubSeq(levels, 1, Len(levels) - 1)

\* this step gives the unit to the innermost pipeline
TakesUnit(message) ==
  /\ Len(levels') = Len(levels)
  /\ levels'[Len(levels)].seen = Append(Top.seen, message)

\* the chunk carries the text once: as it is, or as one text part of it
CarriesOnce(chunk, message) ==
  IF cb.complex THEN parseStreamPart(chunk) = Part("text", JStr(message))
  ELSE chunk = message

\* this step ends the innermost pipeline and returns to the one above
ContinuationEnds == Len(levels') = Len(levels) - 1

C31_ContinuationSpliced ==
  [][InContinuation =>
       /\ \A message \in Units :
            TakesUnit(message) =>
              /\ SubSeq(levels', 1, Len(levels) - 1) = Parents
              /\ \/ fnOut' = fnOut
                 \/ /\ Len(fnOut') = Len(fnOut) + 1
                    /\ SubSeq(fnOut', 1, Len(fnOut)) = fnOut
                    /\ CarriesOnce(fnOut'[Len(fnOut')], message)
              /\ (~Top.isFunctionStreamingIn /\ ~shouldHandleAsFunction(Top, message))
                   => fnOut' # fnOut
       /\ \A i \in 1..(Len(levels) - 1) :
            /\ levels[i].pc = "reading"
            /\ i < Len(levels') => levels'[i].seen = levels[i].seen
       /\ ContinuationEnds =>
            /\ Top.pc \in {"closed", "errored"}
            /\ fnOut' = fnOut
            /\ levels'[Len(levels')].pc = Top.pc]_vars

\* a continuation of a continuation has forwarded a text and ended, and so
\* have the two pipelines above it, in that order
C31_Witness ==
  /\ Len(levels) = 1 /\ levels[1].pc = "closed"
  /\ Len(calls) = 2
  /\ calls[1].level = 1 /\ calls[1].result = "continue"
  /\ calls[2].level = 2 /\ calls[2].result = "continue"
  /\ cb.complex
  /\ fnOut = <<formatStreamPart("text", JStr("Hi"))>>

(***************************************************************************)
(* C32: in every snapshot the content of the text message is the           *)
(* concatenation of the values of the text parts received so far, in       *)
(* order (no text message before the first text part); so the content in   *)
(* a snapshot is a prefix of the content in every later one, and a part of *)
(* another kind leaves it as it was.                                       *)
(***************************************************************************)
\* the content of the text message of the i-th snapshot, "" if it has none
SnapshotText(i) ==
  LET texts == OfKind(updates[i].messages, "text")
  IN IF texts = {} THEN "" ELSE (CHOOSE m \in texts : TRUE).content

TextPartsUpTo(i) == {j \in 1..i : received[j].type = "text"}

C32_TextAppendOnly ==
  /\ Len(updates) = Len(received)
  /\ \A i \in 1..Len(updates) :
       /\ Cardinality(OfKind(updates[i].messages, "text")) =
            IF TextPartsUpTo(i) = {} THEN 0 ELSE 1
       /\ SnapshotText(i) = TextOf(SubSeq(received, 1, i), 1)
       /\ \A j \in 1..(i - 1) : StartsWith(SnapshotText(i), SnapshotText(j))
       /\ (i > 1 /\ received[i].type # "text") => SnapshotText(i) = SnapshotText(i - 1)

\* a text part, a part of another kind, then a different text part
C32_Witness ==
  /\ Len(updates) = 3
  /\ received[1].type = "text" /\ received[2].type = "data"
  /\ received[3].type = "text" /\ received[3].value # received[1].value
  /\ SnapshotText(2) = received[1].value[2]
  /\ SnapshotText(3) = received[1].value[2] \o received[3].value[2]

(***************************************************************************)
(* C33: a batch of parts is decoded only right after a chunk that ends     *)
(* with the line feed or at end-of-input, and parts are yielded only from  *)
(* a decoded batch; a source none of whose chunks ends with a line feed    *)
(* yields nothing before end-of-input, where every buffered line is        *)
(* decoded and yielded; the iteration then ends.                           *)
(***************************************************************************)
\* the chunk this step reads: what leaves the source
ChunkRead == Sub(rdRest, 1, Len(rdRest) - Len(rdRest'))

\* this step decodes a batch
DecodesBatch == rdLog'.batches = rdLog.batches + 1 \/ rdPc' = "failed"

\* this step reads at end-of-input
ReadsEnd == rdRest = "" /\ rdLog'.reads = rdLog.reads + 1

C33_BatchOnlyAfterNewline ==
  [][/\ DecodesBatch =>
          \/ ReadsEnd
          \/ (ChunkRead # "" /\ Ch(ChunkRead, Len(ChunkRead)) = "\n")
     /\ rdOut' # rdOut =>
          (rdBatch # <<>> /\ rdOut' = Append(rdOut, Head(rdBatch)))]_vars

\* no batch was decoded before end-of-input: nothing was yielded before it,
\* and at the end every line has been yielded
C33_StalledSourceYieldsAtEnd ==
  /\ rdLog.batches = 0 => rdOut = <<>>
  /\ (rdLog.batches = rdLog.endBatches /\ rdLog.batches > 0 /\ rdPc = "done"
      /\ rdLog.cancels = <<>>)
       => rdOut = [i \in 1..Len(rdLines) |-> WrittenPart(rdLines[i])]

Ended == rdPc \in {"done", "failed"}

\* until the iteration has ended something is pending: a read, or a part
\* of the batch to yield, or the check after the batch
C33_NeverStuck ==
  /\ rdPc \in {"read", "yield", "check", "done", "failed"}
  /\ rdPc = "yield" => rdBatch # <<>>

C33_YieldsOnlyAfterNewline ==
  /\ C33_BatchOnlyAfterNewline
  /\ []C33_StalledSourceYieldsAtEnd
  /\ []C33_NeverStuck
  /\ <>Ended

\* two lines came in three chunks none of which ended with a line feed; the
\* one batch was decoded at end-of-input, both parts were yielded, and the
\* iteration ended
C33_Witness ==
  /\ Len(rdLines) = 2
  /\ rdLog.reads >= 4
  /\ rdLog.batches = 1 /\ rdLog.endBatches = 1
  /\ Len(rdOut) = 2
  /\ rdPc = "done" /\ rdLog.cancels = <<>>

(***************************************************************************)
(* Claims about the reading loops of callCompletionApi under useCompletion *)
(***************************************************************************)
\* the response has a body that is read, as raw text or as parts
Streams(r) == Responded(r) /\ reqs[r].res.ok /\ reqs[r].res.body
RawText(r) == Streams(r) /\ ~reqs[r].res.complex
Multiplexed(r) == Streams(r) /\ reqs[r].res.complex

\* the body was read to its end and callCompletionApi returned
ConsumedToEnd(r) ==
  /\ Streams(r) /\ reqs[r].pc = "settled"
  /\ reqs[r].rest = <<>> /\ reqs[r].returned # <<>> /\ reqs[r].cancels = 0

\* C34: in raw-text mode the value given to setCompletion after each chunk
\* is the concatenation of the chunks received so far, and the value
\* returned and given to onFinish is the concatenation of all chunks.
C34_RawTextIsConcatenation ==
  \A r \in RequestIds :
    RawText(r) =>
      /\ \A i \in 1..Len(reqs[r].setCompletion) :
           reqs[r].setCompletion[i] = Concat(SubSeq(reqs[r].res.chunks, 1, i), 1)
      /\ ConsumedToEnd(r) =>
           /\ reqs[r].returned = <<Concat(reqs[r].res.chunks, 1)>>
           /\ reqs[r].onFinish = <<Concat(reqs[r].res.chunks, 1)>>

\* the chunks "a", "b" were read to the end and the completion is "aab"
C34_Duplicated ==
  \E r \in RequestIds :
    /\ RawText(r) /\ ConsumedToEnd(r)
    /\ reqs[r].res.chunks = <<"a", "b">>
    /\ reqs[r].setCompletion = <<"a", "aab">>
    /\ reqs[r].onFinish = <<"aab">>

\* the reading of the body ended before the end of the body
CutShort(r) == Streams(r) /\ reqs[r].pc = "settled" /\ reqs[r].rest # <<>>

\* C35: the reading of a request's body is cut short only if stop() was
\* called while the request was in flight; the end of another request
\* never cuts it short.
C35_OnlyStopCutsShort ==
  \A r \in RequestIds : CutShort(r) => reqs[r].stopCalled

\* a request was canceled with part of its body unread, stop() was never
\* called, and the other request had ended
C35_CutShortByOtherRequest ==
  \E r, q \in RequestIds :
    /\ CutShort(r) /\ reqs[r].cancels = 1
    /\ reqs[q].pc = "settled"
    /\ \A x \in RequestIds : ~reqs[x].stopCalled

\* this step delivers a chunk or a part to the request
Consumes(r) == reqs[r].pc = "read" /\ reqs'[r].rest # reqs[r].rest

\* C36: in either mode, a request that takes a chunk or a batch while the
\* abort-controller accessor returns null cancels the reader after it and
\* consumes nothing more.
C36_NullAccessorStopsReading ==
  [][\A r \in RequestIds :
       (Consumes(r) /\ abortCurrent = "null") =>
          /\ reqs'[r].pc = "settled"
          /\ reqs'[r].cancels = reqs[r].cancels + 1]_vars

\* what does hold: the raw-text loop stops
C36_RawTextStopsReading ==
  [][\A r \in RequestIds :
       (Consumes(r) /\ abortCurrent = "null" /\ RawText(r)) =>
          /\ reqs'[r].pc = "settled"
          /\ reqs'[r].cancels = reqs[r].cancels + 1]_vars

\* C37: after a multiplexed response read to its end, the data state is the
\* data present before the request followed by the elements of its data
\* parts in order.
C37_DataPartsAccumulate ==
  \A r \in RequestIds :
    (OnlyRequest(r) /\ Multiplexed(r) /\ ConsumedToEnd(r)) =>
      streamData = reqs[r].existingData \o ItemsOf(reqs[r].res.chunks, "data", 1)

\* the data parts [1] and [2] were received and the data state is [2]
C37_EarlierPartDropped ==
  \E r \in RequestIds :
    /\ OnlyRequest(r) /\ Multiplexed(r) /\ ConsumedToEnd(r)
    /\ reqs[r].onData = <<<<JNum(1)>>, <<JNum(2)>>>>
    /\ streamData = <<JNum(2)>>

\* C38: when the body is read to its end without error, onFinish is called
\* once with the final completion text and callCompletionApi returns that
\* text, in either mode.
C38_FinishOnceWithCompletion ==
  \A r \in RequestIds :
    ConsumedToEnd(r) =>
      /\ reqs[r].onFinish = <<reqs[r].result>>
      /\ reqs[r].returned = <<reqs[r].result>>

\* what does hold: in raw-text mode it is so
C38_RawTextFinishOnce ==
  \A r \in RequestIds :
    (ConsumedToEnd(r) /\ RawText(r)) =>
      /\ reqs[r].onFinish = <<reqs[r].result>>
      /\ reqs[r].returned = <<reqs[r].result>>

\* a multiplexed response was read to its end: no onFinish, undefined returned
C38_MultiplexedNoFinish ==
  \E r \in RequestIds :
    /\ Multiplexed(r) /\ ConsumedToEnd(r)
    /\ reqs[r].result = "ab"
    /\ reqs[r].onFinish = <<>> /\ reqs[r].returned = <<Undefined>>

(***************************************************************************)
(* C39: every value appended with append or appendMessageAnnotation (the   *)
(* call did not throw) is emitted in exactly one data or                   *)
(* message_annotations part: at any moment the values emitted so far       *)
(* followed by the values still queued are the values appended, and when   *)
(* the stream has ended the values emitted are the values appended.        *)
(***************************************************************************)
\* the values of the parts of the given type in the output, in order
Emitted(type) == ItemsOf(DecodedOut, type, 1)

\* the values of the successful appends of the given kind, in order
Appended(kind) == EventsAfter(hist, 1, kind)

C39_AppendedEmittedOnce ==
  /\ sdPc = "done" =>
       /\ Emitted("data") = Appended("data")
       /\ Emitted("message_annotations") = Appended("ann")
  /\ sdPc # "done" =>
       /\ Emitted("data") \o data = Appended("data")
       /\ Emitted("message_annotations") \o messageAnnotations = Appended("ann")

\* a value, a content unit, then an annotation and a value appended before
\* close: two data parts and one message_annotations part by the end
C39_Witness ==
  /\ sdPc = "done"
  /\ Len(hist) = 5
  /\ hist[1][1] = "data" /\ hist[2][1] = "unit" /\ hist[3][1] = "ann"
  /\ hist[4][1] = "data" /\ hist[5][1] = "close"
  /\ Len(sdOut) = 4
  /\ Emitted("data") = <<hist[1][2], hist[4][2]>>

====
